---------------------------- MODULE Spec2Model ----------------------------
(***************************************************************************)
(* The chat route (src/app/api/chat/route.ts): one POST request handled by *)
(* the query orchestration pipeline: body validation, relevance            *)
(* classification, the short-circuit branches, query rewriting, embedding, *)
(* vector search, context assembly, the links (enrichment) call, answer    *)
(* generation, the trace hand-off and the streaming call.                  *)
(*                                                                         *)
(* Text is a sequence of one-character strings, so that trim, toUpperCase  *)
(* and replace are computed character by character.  An optional value     *)
(* (JavaScript null/undefined or a value) is a sequence of length 0 or 1.  *)
(***************************************************************************)
EXTENDS Integers, Sequences, FiniteSets, TLC

\* ------------------------------------------------------------------ bounds

\* The longest messages array a request body carries.
MaxMsgs == 2
\* The longest conversation of the requests of SpecWindow.
MaxHistory == 6
\* The largest topK of the searchNeonDb calls of SpecRetrieval.
MaxTopK == 2
\* How many times SpecRetrieval repeats a searchNeonDb call.
MaxSearches == 2
\* The longest raw classifier content of SpecText.
MaxRaw == 3
\* How many times SpecText applies the normalization to its own result.
MaxApplications == 2
\* How many tokens a stream of SpecConcurrent delivers at most.
MaxTokens == 1
\* How many identifiers uuidv4() hands out to the chat page (SpecPage).
MaxUuids == 2
\* How many chat requests the chat page has pending at a time (SpecPage).
MaxRequests == 2
\* How many GETs of /api/get-session one useSession hook sends (SpecHook).
MaxLoads == 2

\* ------------------------------------------------------- program constants

\* embed({... maxRetries: 2 ...})
maxRetries == 2
\* dbService.searchNeonDb(embedding, "bents", 10)
topK == 10
\* chatHistory.slice(-5), messages.slice(-5)
HistoryWindow == 5
\* status of the two validation responses
StatusBadRequest == 400
\* status of the configuration, streaming and outer-catch responses
StatusServerError == 500
\* status of the Response toDataStreamResponse() builds (its default)
StatusOk == 200

\* ------------------------------------------------------------------- text

None == <<>>
Some(x) == <<x>>

Whitespace == {" ", "\n", "\t"}

LowerLetters == <<"a","b","c","d","e","f","g","h","i","j","k","l","m",
                  "n","o","p","q","r","s","t","u","v","w","x","y","z">>
UpperLetters == <<"A","B","C","D","E","F","G","H","I","J","K","L","M",
                  "N","O","P","Q","R","S","T","U","V","W","X","Y","Z">>

SetMin(S) == CHOOSE x \in S : \A y \in S : x <= y
SetMax(S) == CHOOSE x \in S : \A y \in S : x >= y

\* String.prototype.trim
trim(s) ==
    LET keep == { i \in 1..Len(s) : s[i] \notin Whitespace }
    IN  IF keep = {} THEN <<>> ELSE SubSeq(s, SetMin(keep), SetMax(keep))

UpperChar(c) ==
    IF \E i \in 1..26 : LowerLetters[i] = c
    THEN UpperLetters[CHOOSE i \in 1..26 : LowerLetters[i] = c]
    ELSE c

\* String.prototype.toUpperCase
toUpperCase(s) == [ i \in 1..Len(s) |-> UpperChar(s[i]) ]

\* String.prototype.replace(pattern, "") with a string pattern: the first
\* occurrence of the pattern, wherever it is, is removed.
replaceFirst(s, pat) ==
    LET at == { i \in 1..(Len(s) - Len(pat) + 1) :
                    SubSeq(s, i, i + Len(pat) - 1) = pat }
    IN  IF at = {} THEN s
        ELSE LET i == SetMin(at)
             IN  SubSeq(s, 1, i - 1) \o SubSeq(s, i + Len(pat), Len(s))

\* slice(-n) that keeps the whole array.
sliceLastKeepsAll(seq, n) == seq

\* Array.prototype.slice(-n)
sliceLast(seq, n) ==
    IF Len(seq) <= n THEN seq ELSE SubSeq(seq, Len(seq) - n + 1, Len(seq))

\* Array.prototype.join
RECURSIVE join(_, _)
join(parts, sep) ==
    IF parts = <<>> THEN <<>>
    ELSE IF Len(parts) = 1 THEN parts[1]
    ELSE parts[1] \o sep \o join(Tail(parts), sep)

\* The four tokens of type RelevanceResult.
GREETING      == <<"G","R","E","E","T","I","N","G">>
RELEVANT      == <<"R","E","L","E","V","A","N","T">>
INAPPROPRIATE == <<"I","N","A","P","P","R","O","P","R","I","A","T","E">>
NOT_RELEVANT  == <<"N","O","T","_","R","E","L","E","V","A","N","T">>

RelevanceTokens == {GREETING, RELEVANT, INAPPROPRIATE, NOT_RELEVANT}

\* The label rewriteQuery removes from the model's output.
RewriteLabel == <<"R","e","w","r","i","t","t","e","n"," ",
                  "q","u","e","r","y",":">>

\* The fixed answer of the INAPPROPRIATE branch (the literal, shortened).
InappropriateAnswer == <<"I"," ","a","p","o","l","o","g","i","z","e">>


\* ------------------------------------------------------------ input sets

\* Message contents a request may carry: '', 'hi', 'glue'.
Contents == { <<>>, <<"h","i">>, <<"g","l","u","e">> }

Roles == {"user", "assistant"}

\* interface ChatHistory
ChatHistory == [role : Roles, content : Contents]

SeqsUpTo(S, n) == UNION { [1..k -> S] : k \in 0..n }

\* What req.json() can yield.  kind: "invalidJSON" (req.json() throws),
\* "null" (the JSON value null), "noMessages" (an object with no messages
\* field), "notArray" (messages is not an array), "array".
Bodies ==
    { [kind |-> k, messages |-> <<>>] :
          k \in {"invalidJSON", "null", "noMessages", "notArray"} }
    \cup { [kind |-> "array", messages |-> m] : m \in SeqsUpTo(ChatHistory, MaxMsgs) }

Digits == <<"1","2","3","4","5","6","7","8","9">>

\* A conversation of n messages, each with a content of its own, the user and
\* the assistant taking turns.
numberedMessages(n) ==
    [ i \in 1..n |-> [role |-> IF i % 2 = 1 THEN "user" ELSE "assistant",
                      content |-> <<"m", Digits[i]>>] ]

\* Request bodies with conversations longer than the history window.
LongBodies ==
    { b \in Bodies : b.kind # "array" }
    \cup { [kind |-> "array", messages |-> numberedMessages(n)] : n \in 0..MaxHistory }

\* result.choices[0].message.content of the classifier call: null, '', ' ',
\* 'GREETING', 'greeting\n', 'RELEVANT', ' relevant', 'INAPPROPRIATE',
\* 'NOT_RELEVANT', 'maybe', 'RELEVANT.'.
ClassifierContents ==
    { None, Some(<<>>), Some(<<" ">>),
      Some(GREETING), Some(<<"g","r","e","e","t","i","n","g","\n">>),
      Some(RELEVANT), Some(<<" ","r","e","l","e","v","a","n","t">>),
      Some(INAPPROPRIATE), Some(NOT_RELEVANT),
      Some(<<"m","a","y","b","e">>),
      Some(RELEVANT \o <<".">>) }

\* content of the rewrite call: null, ' ', 'q2', 'Rewritten query: q2',
\* 'q2 Rewritten query:'.
RewriteContents ==
    { None, Some(<<" ">>), Some(<<"q","2">>),
      Some(RewriteLabel \o <<" ","q","2">>),
      Some(<<"q","2"," ">> \o RewriteLabel) }

\* content of a greeting, not-relevant or answer completion: null or 'ok'.
AnswerContents == { None, Some(<<"o","k">>) }

\* The characters raw classifier contents are made of in SpecText.
RawAlphabet == {" ", "\n", "r", "R"}

\* Raw classifier contents: null, every text of up to MaxRaw characters, and
\* the contents of ClassifierContents.
RawContents ==
    { None } \cup { Some(t) : t \in SeqsUpTo(RawAlphabet, MaxRaw) }
    \cup ClassifierContents

\* Raw rewrite contents: null, and the label, or no label, between what may
\* come before it ('', ' ', 'q1 ') and after it ('', ' ', ' q2', ' q2 ' and
\* the label once more).
RewriteRawContents ==
    { None } \cup RewriteContents
    \cup { Some(pre \o mid \o post) :
              pre \in { <<>>, <<" ">>, <<"q","1"," ">> },
              mid \in { <<>>, RewriteLabel },
              post \in { <<>>, <<" ">>, <<" ","q","2">>,
                         <<" ","q","2"," ">> \o RewriteLabel } }


\* Embeddings the provider may return (unit vectors).
Embeddings == { <<1, 0>>, <<0, 1>> }

\* Rows of the table "bents".  vector is optional (NULL).
Row(id, t, v) ==
    [id |-> id, title |-> <<"T", t>>, text |-> <<"x", t>>, url |-> <<"u", t>>,
     chunk_id |-> id, vector |-> v]

Corpora ==
    { { Row(3, "3", None) },
      { Row(1, "1", Some(<<1, 0>>)), Row(2, "2", Some(<<0, 1>>)),
        Row(3, "3", None), Row(4, "4", Some(<<1, 0>>)) } }

\* The rows a table of SpecRetrieval is made of: two at the same vector, one
\* opposite to them, one with no vector, and two more at one vector, of which
\* one has empty title, text and url.
TableRows ==
    { Row(1, "1", Some(<<1, 0>>)), Row(2, "2", Some(<<0, 1>>)),
      Row(3, "3", None), Row(4, "4", Some(<<1, 0>>)),
      Row(5, "5", Some(<<-1, 0>>)),
      [id |-> 6, title |-> <<>>, text |-> <<>>, url |-> <<>>, chunk_id |-> 6,
       vector |-> Some(<<0, 1>>)] }

\* Bodies the links route may answer with.
LinksBodies == { [status |-> "ok"], [status |-> "not_relevant"] }


\* -------------------------------------------------- the pipeline's functions

\* JavaScript truthiness of a string: '' is falsy.
Truthy(s) == s # <<>>

\* The return expression of checkRelevance without its trim().
normalizeRelevanceUntrimmed(content) ==
    IF content = None THEN NOT_RELEVANT
    ELSE LET r == toUpperCase(content[1])
         IN  IF Truthy(r) THEN r ELSE NOT_RELEVANT


\* content?.trim().toUpperCase() || 'NOT_RELEVANT'  (checkRelevance's return)
normalizeRelevance(content) ==
    IF content = None THEN NOT_RELEVANT
    ELSE LET r == toUpperCase(trim(content[1]))
         IN  IF Truthy(r) THEN r ELSE NOT_RELEVANT

\* content?.replace("Rewritten query:", "").trim(), then cleanedResponse || query
cleanRewrite(content, query) ==
    IF content = None THEN query
    ELSE LET cleanedResponse == trim(replaceFirst(content[1], RewriteLabel))
         IN  IF Truthy(cleanedResponse) THEN cleanedResponse ELSE query

\* rewriteQuery with a catch block that returns nothing usable.
rewriteQueryDropsQuery(query, threw, content) ==
    IF threw THEN <<>> ELSE cleanRewrite(content, query)

\* rewriteQuery's return value: the catch block returns the query.
rewriteQuery(query, threw, content) ==
    IF threw THEN query ELSE cleanRewrite(content, query)

\* The content of the last message, whatever its role.
lastMessageContent(msgs) ==
    IF msgs = <<>> THEN <<>> ELSE msgs[Len(msgs)].content


\* messages.findLast(msg => msg.role === 'user')?.content || ''
findLastUserContent(msgs) ==
    LET users == { i \in 1..Len(msgs) : msgs[i].role = "user" }
    IN  IF users = {} THEN <<>> ELSE msgs[SetMax(users)].content

\* The validation without its Array.isArray test.
invalidRequestFormatNoArrayTest(b) == b.kind = "null"

\* !body || !Array.isArray(body.messages)
invalidRequestFormat(b) == b.kind = "null" \/ b.kind # "array"

\* !process.env.LANGSMITH_API_KEY, as POST tests it before the pipeline
langsmithNotConfigured(key) == ~key

\* The branch tests with GREETING sent to the not-relevant completion.
branchOfGreetingDeflected(r) ==
    IF r = INAPPROPRIATE THEN "Inappropriate"
    ELSE IF r = NOT_RELEVANT \/ r = GREETING THEN "NotRelevant"
    ELSE "Rewrite"

\* Which branch of the pipeline a relevanceResult takes: the three
\* short-circuit tests, and everything else falls through to the RELEVANT code.
branchOf(r) ==
    IF r = GREETING THEN "Greeting"
    ELSE IF r = INAPPROPRIATE THEN "Inappropriate"
    ELSE IF r = NOT_RELEVANT THEN "NotRelevant"
    ELSE "Rewrite"

Dot(a, b) == a[1] * b[1] + a[2] * b[2]

\* vector <=> $1::vector, the cosine distance; the vectors of the model are
\* unit vectors, for which it is 1 minus the dot product.
Distance(a, b) == 1 - Dot(a, b)

\* One row of the query's result, as searchNeonDb maps it to a Document.
toDocument(row, queryEmbedding) ==
    [id |-> row.id, text |-> row.text, title |-> row.title, url |-> row.url,
     chunk_id |-> row.chunk_id,
     similarity_score |-> 1 - Distance(row.vector[1], queryEmbedding)]

\* The query without its LIMIT: every row with a vector is returned.
searchNeonDbIgnoresLimit(queryEmbedding, table, k) ==
    LET qualifying == { r \in table : r.vector # None }
        n == Cardinality(qualifying)
        d(r) == Distance(r.vector[1], queryEmbedding)
        orders == { s \in [1..n -> qualifying] :
                      \A i, j \in 1..n : i < j => s[i] # s[j] /\ d(s[i]) <= d(s[j]) }
    IN  { [ i \in 1..n |-> toDocument(s[i], queryEmbedding) ] : s \in orders }

\* The results the query of searchNeonDb can return: the k nearest rows with
\* a vector, in ascending distance; the order of rows at the same distance is
\* the database's choice.
searchNeonDb(queryEmbedding, table, k) ==
    LET qualifying == { r \in table : r.vector # None }
        n == IF Cardinality(qualifying) < k THEN Cardinality(qualifying) ELSE k
        d(r) == Distance(r.vector[1], queryEmbedding)
        orders == { s \in [1..n -> qualifying] :
                      /\ \A i, j \in 1..n : i < j => s[i] # s[j] /\ d(s[i]) <= d(s[j])
                      /\ \A r \in qualifying :
                            (\A i \in 1..n : s[i] # r) => \A i \in 1..n : d(s[i]) <= d(r) }
    IN  { [ i \in 1..n |-> toDocument(s[i], queryEmbedding) ] : s \in orders }

SourcePrefix  == <<"S","o","u","r","c","e",":"," ">>
ContentPrefix == <<"\n","C","o","n","t","e","n","t",":"," ">>
UrlPrefix     == <<"\n","U","R","L",":"," ">>

\* `Source: ${doc.title}\nContent: ${doc.text}\nURL: ${doc.url}`
docBlock(doc) ==
    SourcePrefix \o doc.title \o ContentPrefix \o doc.text \o UrlPrefix \o doc.url

\* The assembly with the separator put after every block.
assembleContextTrailingSeparator(docs) ==
    join([ i \in 1..Len(docs) |-> docBlock(docs[i]) \o <<"\n", "\n">> ], <<>>)

\* similarDocs.map(...).join('\n\n')
assembleContext(docs) ==
    join([ i \in 1..Len(docs) |-> docBlock(docs[i]) ], <<"\n", "\n">>)

\* completion.choices[0].message.content || ''
answerOf(content) == IF content = None THEN <<>> ELSE content[1]

\* The PipelineResponse object literals of the pipeline.
pipelineResponse(text, type, input, contextCount, rewritten) ==
    [text |-> text, type |-> type,
     metadata |-> [input |-> input, output |-> text,
                   contextCount |-> contextCount,
                   rewrittenQuery |-> rewritten, responseType |-> type]]


\* The persona prompt SYSTEM_INSTRUCTIONS (the literal, shortened).
SYSTEM_INSTRUCTIONS == <<"Y","o","u"," ","a","r","e">>

\* ------------------------------------------------------------------ state

VARIABLES
    pc,               \* where the handler of the request stands
    body,             \* what req.json() yields for this request
    langsmithKey,     \* whether process.env.LANGSMITH_API_KEY is set
    corpus,           \* the rows of table "bents"
    messages,         \* const messages = body.messages
    lastUserMessage,  \* const lastUserMessage
    classifierContent,\* the classifier's raw message content
    relevanceResult,  \* optional: const relevanceResult
    rewrittenQuery,   \* optional: const rewrittenQuery
    embedAttempts,    \* attempts embed() has made at the provider
    embedding,        \* optional: const { embedding }
    similarDocs,      \* optional: const similarDocs
    contextTexts,     \* optional: const contextTexts
    linksData,        \* optional: const linksData
    response,         \* optional: const response (the PipelineResponse)
    traceSettings,    \* optional: what AISDKExporter.getSettings accepted
    streamCall,       \* optional: the argument of streamText
    httpResponses,    \* the Responses POST has returned
    calls,            \* the calls made to collaborators, in order
    failures,         \* the stages whose call threw, in order
    searchInput,      \* optional: the arguments of the searchNeonDb calls made
                      \* on their own (SpecRetrieval)
    searchOutputs,    \* what those calls returned, in order
    contexts,         \* the context assembled from each of those results
    connection,       \* the caller's connection to this request: "open", "closed"
    generation,       \* the streamed generation streamText starts: "idle",
                      \* "running", "ended", "aborted"
    delivered,        \* how many tokens the caller has received
    suspended,        \* optional: the locals of the other request in flight,
                      \* while this one runs (SpecConcurrent)
    normInput,        \* optional: a raw classifier content (SpecText)
    normOutputs,      \* the results of normalizing it, and of normalizing those
    rwInput,          \* optional: the inputs of a rewriteQuery call (SpecText)
    rwOutput,         \* optional: what that call returned
    page,             \* the state of the chat page open in a browser, with
                      \* the browser's storage (SpecPage); None on the server
    hook              \* the state of one useSession hook, with the module's
                      \* shared variables (SpecHook); None on the server

vars == << pc, body, langsmithKey, corpus, messages, lastUserMessage,
           classifierContent, relevanceResult, rewrittenQuery, embedAttempts,
           embedding, similarDocs, contextTexts, linksData, response,
           traceSettings, streamCall, httpResponses, calls, failures,
           searchInput, searchOutputs, contexts, connection, generation,
           delivered, suspended, normInput, normOutputs, rwInput, rwOutput,
           page, hook >>

inputVars == << body, langsmithKey, corpus >>

retrievalVars == << searchInput, searchOutputs, contexts >>

streamVars == << connection, generation, delivered >>

textVars == << normInput, normOutputs, rwInput, rwOutput >>

clientVars == << page, hook >>

\* What the steps of one POST leave alone.
otherVars == << retrievalVars, textVars, suspended, clientVars >>

\* No statement of POST has run.
NothingDoneYet ==
    /\ messages = <<>>
    /\ lastUserMessage = <<>>
    /\ classifierContent = None
    /\ relevanceResult = None
    /\ rewrittenQuery = None
    /\ embedAttempts = 0
    /\ embedding = None
    /\ similarDocs = None
    /\ contextTexts = None
    /\ linksData = None
    /\ response = None
    /\ traceSettings = None
    /\ streamCall = None
    /\ httpResponses = <<>>
    /\ calls = <<>>
    /\ failures = <<>>
    /\ connection = "open"
    /\ generation = "idle"
    /\ delivered = 0

\* No page is open and no hook is mounted: the server's side alone.
NoClient ==
    /\ page = None
    /\ hook = None

\* No text function has been applied on its own.
NoTextInput ==
    /\ normInput = None
    /\ normOutputs = <<>>
    /\ rwInput = None
    /\ rwOutput = None

\* The state in which POST is called with one of the given bodies.
InitWith(bodies) ==
    /\ pc = "Start"
    /\ body \in bodies
    /\ langsmithKey \in BOOLEAN
    /\ corpus \in Corpora
    /\ NothingDoneYet
    /\ searchInput = None
    /\ searchOutputs = <<>>
    /\ contexts = <<>>
    /\ suspended = None
    /\ NoTextInput
    /\ NoClient

Init == InitWith(Bodies)

Call(stage, arg) == calls' = Append(calls, [stage |-> stage, arg |-> arg])

\* return new Response(JSON.stringify({ error }), { status })
Respond(status, error) ==
    /\ httpResponses' = Append(httpResponses,
                               [status |-> status, kind |-> "error", error |-> error])
    /\ pc' = "Failed"

\* The catch block of POST: any error thrown in the handler becomes one
\* response with status 500.
outerCatch(stage) ==
    /\ failures' = Append(failures, stage)
    /\ Respond(StatusServerError, stage)

\* ------------------------------------------------- POST, up to the pipeline

\* await req.json() throws: the inner catch answers 400.
ParseFails ==
    /\ pc = "Start"
    /\ body.kind = "invalidJSON"
    /\ Respond(StatusBadRequest, "Invalid JSON in request body")
    /\ UNCHANGED << inputVars, otherVars, streamVars, messages, lastUserMessage, classifierContent,
                    relevanceResult, rewrittenQuery, embedAttempts, embedding,
                    similarDocs, contextTexts, linksData, response,
                    traceSettings, streamCall, calls, failures >>

\* The body parsed, and is not an object with a messages array.
ValidationFails ==
    /\ pc = "Start"
    /\ body.kind # "invalidJSON"
    /\ invalidRequestFormat(body)
    /\ Respond(StatusBadRequest, "Invalid request format. Expected messages array.")
    /\ UNCHANGED << inputVars, otherVars, streamVars, messages, lastUserMessage, classifierContent,
                    relevanceResult, rewrittenQuery, embedAttempts, embedding,
                    similarDocs, contextTexts, linksData, response,
                    traceSettings, streamCall, calls, failures >>

\* messages and lastUserMessage are taken, then the LangSmith key is tested.
ConfigurationFails ==
    /\ pc = "Start"
    /\ body.kind # "invalidJSON"
    /\ ~invalidRequestFormat(body)
    /\ langsmithNotConfigured(langsmithKey)
    /\ messages' = body.messages
    /\ lastUserMessage' = findLastUserContent(body.messages)
    /\ Respond(StatusServerError, "LangSmith configuration error")
    /\ UNCHANGED << inputVars, otherVars, streamVars, classifierContent, relevanceResult,
                    rewrittenQuery, embedAttempts, embedding, similarDocs,
                    contextTexts, linksData, response, traceSettings,
                    streamCall, calls, failures >>

\* POST entering the pipeline at the rewrite, without the classification.
AcceptSkipsClassification ==
    /\ pc = "Start"
    /\ body.kind # "invalidJSON"
    /\ ~invalidRequestFormat(body)
    /\ ~langsmithNotConfigured(langsmithKey)
    /\ messages' = body.messages
    /\ lastUserMessage' = findLastUserContent(body.messages)
    /\ pc' = "Rewrite"
    /\ UNCHANGED << inputVars, otherVars, streamVars, classifierContent, relevanceResult,
                    rewrittenQuery, embedAttempts, embedding, similarDocs,
                    contextTexts, linksData, response, traceSettings,
                    streamCall, httpResponses, calls, failures >>

\* The request passed every test of POST and the pipeline is entered.
Accept ==
    /\ pc = "Start"
    /\ body.kind # "invalidJSON"
    /\ ~invalidRequestFormat(body)
    /\ ~langsmithNotConfigured(langsmithKey)
    /\ messages' = body.messages
    /\ lastUserMessage' = findLastUserContent(body.messages)
    /\ pc' = "Classify"
    /\ UNCHANGED << inputVars, otherVars, streamVars, classifierContent, relevanceResult,
                    rewrittenQuery, embedAttempts, embedding, similarDocs,
                    contextTexts, linksData, response, traceSettings,
                    streamCall, httpResponses, calls, failures >>

\* ------------------------------------------------------- checkRelevance

\* The classifier called twice for one request.
CallCheckRelevanceTwice ==
    LET c == [stage |-> "checkRelevance",
              arg |-> [history |-> sliceLast(messages, HistoryWindow),
                       query |-> lastUserMessage]]
    IN  calls' = calls \o << c, c >>

CallCheckRelevance ==
    Call("checkRelevance",
         [history |-> sliceLast(messages, HistoryWindow), query |-> lastUserMessage])

\* The classifier call throws; checkRelevance has no catch.
CheckRelevanceThrows ==
    /\ pc = "Classify"
    /\ CallCheckRelevance
    /\ outerCatch("checkRelevance")
    /\ UNCHANGED << inputVars, otherVars, streamVars, messages, lastUserMessage, classifierContent,
                    relevanceResult, rewrittenQuery, embedAttempts, embedding,
                    similarDocs, contextTexts, linksData, response,
                    traceSettings, streamCall >>

\* The classifier call returns; the pipeline takes the branch of its result.
CheckRelevance ==
    /\ pc = "Classify"
    /\ CallCheckRelevance
    /\ \E content \in ClassifierContents :
        /\ classifierContent' = content
        /\ relevanceResult' = Some(normalizeRelevance(content))
        /\ pc' = branchOf(normalizeRelevance(content))
    /\ UNCHANGED << inputVars, otherVars, streamVars, messages, lastUserMessage, rewrittenQuery,
                    embedAttempts, embedding, similarDocs, contextTexts,
                    linksData, response, traceSettings, streamCall,
                    httpResponses, failures >>


\* --------------------------------------------- the short-circuit branches

\* The greeting completion throws.
GreetingThrows ==
    /\ pc = "Greeting"
    /\ Call("greetingCompletion", lastUserMessage)
    /\ outerCatch("greetingCompletion")
    /\ UNCHANGED << inputVars, otherVars, streamVars, messages, lastUserMessage, classifierContent,
                    relevanceResult, rewrittenQuery, embedAttempts, embedding,
                    similarDocs, contextTexts, linksData, response,
                    traceSettings, streamCall >>

\* The greeting completion returns and the pipeline returns its result.
Greeting ==
    /\ pc = "Greeting"
    /\ Call("greetingCompletion", lastUserMessage)
    /\ \E content \in AnswerContents :
        response' = Some(pipelineResponse(answerOf(content), "greeting",
                                          lastUserMessage, 0, <<>>))
    /\ pc' = "Trace"
    /\ UNCHANGED << inputVars, otherVars, streamVars, messages, lastUserMessage, classifierContent,
                    relevanceResult, rewrittenQuery, embedAttempts, embedding,
                    similarDocs, contextTexts, linksData, traceSettings,
                    streamCall, httpResponses, failures >>

\* INAPPROPRIATE answered through a completion call, like the other two
\* short-circuit branches.
InappropriateWithCompletion ==
    /\ pc = "Inappropriate"
    /\ Call("inappropriateCompletion", lastUserMessage)
    /\ \E content \in AnswerContents :
        response' = Some(pipelineResponse(answerOf(content), "inappropriate",
                                          lastUserMessage, 0, <<>>))
    /\ pc' = "Trace"
    /\ UNCHANGED << inputVars, otherVars, streamVars, messages, lastUserMessage, classifierContent,
                    relevanceResult, rewrittenQuery, embedAttempts, embedding,
                    similarDocs, contextTexts, linksData, traceSettings,
                    streamCall, httpResponses, failures >>

\* INAPPROPRIATE: the fixed answer, no call.
Inappropriate ==
    /\ pc = "Inappropriate"
    /\ response' = Some(pipelineResponse(InappropriateAnswer, "inappropriate",
                                         lastUserMessage, 0, <<>>))
    /\ pc' = "Trace"
    /\ UNCHANGED << inputVars, otherVars, streamVars, messages, lastUserMessage, classifierContent,
                    relevanceResult, rewrittenQuery, embedAttempts, embedding,
                    similarDocs, contextTexts, linksData, traceSettings,
                    streamCall, httpResponses, calls, failures >>

\* The not-relevant completion throws.
NotRelevantThrows ==
    /\ pc = "NotRelevant"
    /\ Call("notRelevantCompletion", lastUserMessage)
    /\ outerCatch("notRelevantCompletion")
    /\ UNCHANGED << inputVars, otherVars, streamVars, messages, lastUserMessage, classifierContent,
                    relevanceResult, rewrittenQuery, embedAttempts, embedding,
                    similarDocs, contextTexts, linksData, response,
                    traceSettings, streamCall >>

\* The not-relevant completion returns and the pipeline returns its result.
NotRelevant ==
    /\ pc = "NotRelevant"
    /\ Call("notRelevantCompletion", lastUserMessage)
    /\ \E content \in AnswerContents :
        response' = Some(pipelineResponse(answerOf(content), "not-relevant",
                                          lastUserMessage, 0, <<>>))
    /\ pc' = "Trace"
    /\ UNCHANGED << inputVars, otherVars, streamVars, messages, lastUserMessage, classifierContent,
                    relevanceResult, rewrittenQuery, embedAttempts, embedding,
                    similarDocs, contextTexts, linksData, traceSettings,
                    streamCall, httpResponses, failures >>

\* ---------------------------------------------------- the RELEVANT code

CallRewriteQuery ==
    Call("rewriteQuery", [query |-> lastUserMessage, history |-> messages])

\* The rewrite call throws; rewriteQuery catches it and returns.
RewriteThrows ==
    /\ pc = "Rewrite"
    /\ CallRewriteQuery
    /\ failures' = Append(failures, "rewriteQuery")
    /\ rewrittenQuery' = Some(rewriteQuery(lastUserMessage, TRUE, None))
    /\ pc' = "Embed"
    /\ UNCHANGED << inputVars, otherVars, streamVars, messages, lastUserMessage, classifierContent,
                    relevanceResult, embedAttempts, embedding, similarDocs,
                    contextTexts, linksData, response, traceSettings,
                    streamCall, httpResponses >>

\* The rewrite call returns.
Rewrite ==
    /\ pc = "Rewrite"
    /\ CallRewriteQuery
    /\ \E content \in RewriteContents :
        rewrittenQuery' = Some(rewriteQuery(lastUserMessage, FALSE, content))
    /\ pc' = "Embed"
    /\ UNCHANGED << inputVars, otherVars, streamVars, messages, lastUserMessage, classifierContent,
                    relevanceResult, embedAttempts, embedding, similarDocs,
                    contextTexts, linksData, response, traceSettings,
                    streamCall, httpResponses, failures >>

\* embed() is one call of the pipeline; it is logged with its first attempt.
CallEmbed ==
    IF embedAttempts = 0 THEN Call("embed", rewrittenQuery[1]) ELSE UNCHANGED calls

\* An attempt at the embedding provider succeeds.
EmbedSucceeds ==
    /\ pc = "Embed"
    /\ CallEmbed
    /\ embedAttempts' = embedAttempts + 1
    /\ \E e \in Embeddings : embedding' = Some(e)
    /\ pc' = "Search"
    /\ UNCHANGED << inputVars, otherVars, streamVars, messages, lastUserMessage, classifierContent,
                    relevanceResult, rewrittenQuery, similarDocs, contextTexts,
                    linksData, response, traceSettings, streamCall,
                    httpResponses, failures >>

\* embed() counting maxRetries as the retries after the first retry.
EmbedAttemptFailsRetriesOnceMore ==
    /\ pc = "Embed"
    /\ CallEmbed
    /\ embedAttempts' = embedAttempts + 1
    /\ IF embedAttempts' > maxRetries + 1
       THEN outerCatch("embed")
       ELSE UNCHANGED << pc, httpResponses, failures >>
    /\ UNCHANGED << inputVars, otherVars, streamVars, messages, lastUserMessage, classifierContent,
                    relevanceResult, rewrittenQuery, embedding, similarDocs,
                    contextTexts, linksData, response, traceSettings,
                    streamCall >>


\* An attempt fails with a retryable error: embed() retries, and throws once
\* the attempt after maxRetries retries has failed.
EmbedAttemptFails ==
    /\ pc = "Embed"
    /\ CallEmbed
    /\ embedAttempts' = embedAttempts + 1
    /\ IF embedAttempts' > maxRetries
       THEN outerCatch("embed")
       ELSE UNCHANGED << pc, httpResponses, failures >>
    /\ UNCHANGED << inputVars, otherVars, streamVars, messages, lastUserMessage, classifierContent,
                    relevanceResult, rewrittenQuery, embedding, similarDocs,
                    contextTexts, linksData, response, traceSettings,
                    streamCall >>

\* AbortSignal.timeout(5000) fires during an attempt: embed() throws.
EmbedTimesOut ==
    /\ pc = "Embed"
    /\ CallEmbed
    /\ embedAttempts' = embedAttempts + 1
    /\ outerCatch("embed")
    /\ UNCHANGED << inputVars, otherVars, streamVars, messages, lastUserMessage, classifierContent,
                    relevanceResult, rewrittenQuery, embedding, similarDocs,
                    contextTexts, linksData, response, traceSettings,
                    streamCall >>

CallSearch == Call("searchNeonDb", [queryEmbedding |-> embedding[1], topK |-> topK])

\* The query throws; searchNeonDb logs and rethrows.
SearchThrows ==
    /\ pc = "Search"
    /\ CallSearch
    /\ outerCatch("searchNeonDb")
    /\ UNCHANGED << inputVars, otherVars, streamVars, messages, lastUserMessage, classifierContent,
                    relevanceResult, rewrittenQuery, embedAttempts, embedding,
                    similarDocs, contextTexts, linksData, response,
                    traceSettings, streamCall >>

\* The query returns; the context is assembled, and the links request is
\* made only if the context is not empty.
Search ==
    /\ pc = "Search"
    /\ CallSearch
    /\ \E docs \in searchNeonDb(embedding[1], corpus, topK) :
        /\ similarDocs' = Some(docs)
        /\ contextTexts' = Some(assembleContext(docs))
        /\ pc' = IF Truthy(assembleContext(docs)) THEN "Links" ELSE "Generate"
    /\ UNCHANGED << inputVars, otherVars, streamVars, messages, lastUserMessage, classifierContent,
                    relevanceResult, rewrittenQuery, embedAttempts, embedding,
                    linksData, response, traceSettings, streamCall,
                    httpResponses, failures >>

CallLinks == Call("links", [context |-> contextTexts[1], query |-> rewrittenQuery[1]])

\* fetch('/api/links') rejects, or linksResponse.json() throws on a body that
\* is not JSON; neither is caught in the pipeline.
LinksThrows ==
    /\ pc = "Links"
    /\ CallLinks
    /\ outerCatch("links")
    /\ UNCHANGED << inputVars, otherVars, streamVars, messages, lastUserMessage, classifierContent,
                    relevanceResult, rewrittenQuery, embedAttempts, embedding,
                    similarDocs, contextTexts, linksData, response,
                    traceSettings, streamCall >>

\* The links route answers with a JSON body, which is only logged.
Links ==
    /\ pc = "Links"
    /\ CallLinks
    /\ \E data \in LinksBodies : linksData' = Some(data)
    /\ pc' = "Generate"
    /\ UNCHANGED << inputVars, otherVars, streamVars, messages, lastUserMessage, classifierContent,
                    relevanceResult, rewrittenQuery, embedAttempts, embedding,
                    similarDocs, contextTexts, response, traceSettings,
                    streamCall, httpResponses, failures >>

\* The generation prompt built with the rewritten query as its question.
CallGenerateAsksRewritten ==
    Call("generate", [history |-> sliceLast(messages, HistoryWindow),
                      context |-> contextTexts[1],
                      question |-> rewrittenQuery[1]])

CallGenerate ==
    Call("generate", [history |-> sliceLast(messages, HistoryWindow),
                      context |-> contextTexts[1],
                      question |-> lastUserMessage])

\* The answer completion throws and the pipeline answers with an empty text.
GenerateThrowsRecovered ==
    /\ pc = "Generate"
    /\ CallGenerate
    /\ failures' = Append(failures, "generate")
    /\ response' = Some(pipelineResponse(<<>>, "chat", lastUserMessage,
                                         Len(similarDocs[1]), rewrittenQuery[1]))
    /\ pc' = "Trace"
    /\ UNCHANGED << inputVars, otherVars, streamVars, messages, lastUserMessage, classifierContent,
                    relevanceResult, rewrittenQuery, embedAttempts, embedding,
                    similarDocs, contextTexts, linksData, traceSettings,
                    streamCall, httpResponses >>

\* The answer completion throws.
GenerateThrows ==
    /\ pc = "Generate"
    /\ CallGenerate
    /\ outerCatch("generate")
    /\ UNCHANGED << inputVars, otherVars, streamVars, messages, lastUserMessage, classifierContent,
                    relevanceResult, rewrittenQuery, embedAttempts, embedding,
                    similarDocs, contextTexts, linksData, response,
                    traceSettings, streamCall >>

\* The chat result counting the documents asked for, not those returned.
GenerateCountsTopK ==
    /\ pc = "Generate"
    /\ CallGenerate
    /\ \E content \in AnswerContents :
        response' = Some(pipelineResponse(answerOf(content), "chat",
                                          lastUserMessage, topK,
                                          rewrittenQuery[1]))
    /\ pc' = "Trace"
    /\ UNCHANGED << inputVars, otherVars, streamVars, messages, lastUserMessage, classifierContent,
                    relevanceResult, rewrittenQuery, embedAttempts, embedding,
                    similarDocs, contextTexts, linksData, traceSettings,
                    streamCall, httpResponses, failures >>


\* The answer completion returns and the pipeline returns its result.
Generate ==
    /\ pc = "Generate"
    /\ CallGenerate
    /\ \E content \in AnswerContents :
        response' = Some(pipelineResponse(answerOf(content), "chat",
                                          lastUserMessage, Len(similarDocs[1]),
                                          rewrittenQuery[1]))
    /\ pc' = "Trace"
    /\ UNCHANGED << inputVars, otherVars, streamVars, messages, lastUserMessage, classifierContent,
                    relevanceResult, rewrittenQuery, embedAttempts, embedding,
                    similarDocs, contextTexts, linksData, traceSettings,
                    streamCall, httpResponses, failures >>


\* ------------------------------------ after the pipeline: trace, then stream

\* { ...a, ...b }: the keys of both, b's value where both have the key.
spread(a, b) ==
    [ k \in DOMAIN a \cup DOMAIN b |-> IF k \in DOMAIN b THEN b[k] ELSE a[k] ]

\* LangSmith metadata that also carries an input key.
getLangSmithMetadataWithInput ==
    [projectName |-> "default", endpoint |-> "https://api.smith.langchain.com",
     input |-> <<>>]

\* getLangSmithMetadata(): projectName and endpoint of langsmithConfig (their
\* defaults).
getLangSmithMetadata ==
    [projectName |-> "default", endpoint |-> "https://api.smith.langchain.com"]

\* { ...response.metadata, ...getLangSmithMetadata(), type: `${response.type}-<suffix>` }
handedMetadata(suffix) ==
    spread(spread(response[1].metadata, getLangSmithMetadata),
           [type |-> << response[1].type, suffix >>])

\* The argument of AISDKExporter.getSettings.
traceArg ==
    [runName |-> << response[1].type, "-completion" >>,
     metadata |-> handedMetadata("-completion")]

\* AISDKExporter.getSettings returns.
TraceHandoff ==
    /\ pc = "Trace"
    /\ Call("getSettings", traceArg)
    /\ traceSettings' = Some(traceArg)
    /\ pc' = "Stream"
    /\ UNCHANGED << inputVars, otherVars, streamVars, messages, lastUserMessage, classifierContent,
                    relevanceResult, rewrittenQuery, embedAttempts, embedding,
                    similarDocs, contextTexts, linksData, response, streamCall,
                    httpResponses, failures >>

\* AISDKExporter.getSettings throws and nothing catches it before POST's
\* own catch block.
TraceHandoffRethrows ==
    /\ pc = "Trace"
    /\ Call("getSettings", traceArg)
    /\ outerCatch("getSettings")
    /\ UNCHANGED << inputVars, otherVars, streamVars, messages, lastUserMessage, classifierContent,
                    relevanceResult, rewrittenQuery, embedAttempts, embedding,
                    similarDocs, contextTexts, linksData, response,
                    traceSettings, streamCall >>

\* AISDKExporter.getSettings throws: the catch logs it and POST goes on.
TraceHandoffThrows ==
    /\ pc = "Trace"
    /\ Call("getSettings", traceArg)
    /\ failures' = Append(failures, "getSettings")
    /\ pc' = "Stream"
    /\ UNCHANGED << inputVars, otherVars, streamVars, messages, lastUserMessage, classifierContent,
                    relevanceResult, rewrittenQuery, embedAttempts, embedding,
                    similarDocs, contextTexts, linksData, response,
                    traceSettings, streamCall, httpResponses >>

\* streamText given the persona and the answer, without the request's messages.
streamArgWithoutHistory ==
    [messages |-> << [role |-> "system", content |-> SYSTEM_INSTRUCTIONS],
                     [role |-> "assistant", content |-> response[1].text] >>,
     metadata |-> handedMetadata("-stream")]

\* The argument of streamText: the persona, the request's messages, and the
\* pipeline's text as one assistant message.
streamArg ==
    [messages |-> << [role |-> "system", content |-> SYSTEM_INSTRUCTIONS] >>
                  \o messages
                  \o << [role |-> "assistant", content |-> response[1].text] >>,
     metadata |-> handedMetadata("-stream")]

\* streamText(...).toDataStreamResponse() throws: the inner catch answers 500.
StreamThrows ==
    /\ pc = "Stream"
    /\ Call("streamText", streamArg)
    /\ failures' = Append(failures, "streamText")
    /\ Respond(StatusServerError, "Failed to stream response")
    /\ UNCHANGED << inputVars, otherVars, streamVars, messages, lastUserMessage, classifierContent,
                    relevanceResult, rewrittenQuery, embedAttempts, embedding,
                    similarDocs, contextTexts, linksData, response,
                    traceSettings, streamCall >>

\* streamText(...).toDataStreamResponse() is returned by POST.
Stream ==
    /\ pc = "Stream"
    /\ Call("streamText", streamArg)
    /\ streamCall' = Some(streamArg)
    /\ httpResponses' = Append(httpResponses,
                               [status |-> StatusOk, kind |-> "stream", error |-> ""])
    /\ pc' = "Streaming"
    /\ generation' = "running"
    /\ UNCHANGED << inputVars, otherVars, connection, delivered, messages,
                    lastUserMessage, classifierContent,
                    relevanceResult, rewrittenQuery, embedAttempts, embedding,
                    similarDocs, contextTexts, linksData, response,
                    traceSettings, failures >>

\* A data stream that is never ended.
StreamNeverEnds ==
    /\ pc = "Streaming"
    /\ generation = "running"
    /\ UNCHANGED vars


\* The streamed generation runs to its end, and with it the data stream.
StreamEnds ==
    /\ pc = "Streaming"
    /\ generation = "running"
    /\ pc' = "Done"
    /\ generation' = "ended"
    /\ UNCHANGED << inputVars, otherVars, connection, delivered, messages, lastUserMessage, classifierContent,
                    relevanceResult, rewrittenQuery, embedAttempts, embedding,
                    similarDocs, contextTexts, linksData, response,
                    traceSettings, streamCall, httpResponses, calls, failures >>

Next ==
    \/ ParseFails
    \/ ValidationFails
    \/ ConfigurationFails
    \/ Accept
    \/ CheckRelevanceThrows
    \/ CheckRelevance
    \/ GreetingThrows
    \/ Greeting
    \/ Inappropriate
    \/ NotRelevantThrows
    \/ NotRelevant
    \/ RewriteThrows
    \/ Rewrite
    \/ EmbedSucceeds
    \/ EmbedAttemptFails
    \/ EmbedTimesOut
    \/ SearchThrows
    \/ Search
    \/ LinksThrows
    \/ Links
    \/ GenerateThrows
    \/ Generate
    \/ TraceHandoff
    \/ TraceHandoffThrows
    \/ StreamThrows
    \/ Stream
    \/ StreamEnds

Spec == Init /\ [][Next]_vars


\* POST on requests whose conversations may be longer than the history window.
InitWindow == InitWith(LongBodies)

SpecWindow == InitWindow /\ [][Next]_vars

\* POST when every call that was made returns or throws, and the stream that
\* was started ends: a step that can be taken is taken.  The host abandons a
\* request after maxDuration seconds, so none waits for ever.  The requests
\* are those of InitWindow.
SpecLive == InitWindow /\ [][Next]_vars /\ WF_vars(Next)

\* ------------------------ searchNeonDb and context assembly on their own

\* searchNeonDb(queryEmbedding, "bents", topK) is called, repeatedly with the
\* same arguments on the same table, and the context is assembled from each
\* result as the pipeline does.
InitRetrieval ==
    /\ pc = "Start"
    /\ body = [kind |-> "array", messages |-> <<>>]
    /\ langsmithKey = TRUE
    /\ corpus \in SUBSET TableRows
    /\ NothingDoneYet
    /\ searchInput \in { Some([queryEmbedding |-> e, topK |-> k]) :
                            e \in Embeddings, k \in 0..MaxTopK }
    /\ searchOutputs = <<>>
    /\ contexts = <<>>
    /\ suspended = None
    /\ NoTextInput
    /\ NoClient

SearchAndAssemble ==
    /\ Len(searchOutputs) < MaxSearches
    /\ \E docs \in searchNeonDb(searchInput[1].queryEmbedding, corpus,
                                searchInput[1].topK) :
        /\ searchOutputs' = Append(searchOutputs, docs)
        /\ contexts' = Append(contexts, assembleContext(docs))
    /\ UNCHANGED << pc, inputVars, messages, lastUserMessage, classifierContent,
                    relevanceResult, rewrittenQuery, embedAttempts, embedding,
                    similarDocs, contextTexts, linksData, response,
                    traceSettings, streamCall, httpResponses, calls, failures,
                    searchInput, streamVars, textVars, suspended,
                    clientVars >>

NextRetrieval == SearchAndAssemble

SpecRetrieval == InitRetrieval /\ [][NextRetrieval]_vars

\* ------------------------------------------- two requests handled at once

\* The variables of one invocation of POST: its argument, its consts, what it
\* returned, and what became of its stream.  Every invocation has its own.
locals ==
    [pc |-> pc, body |-> body, messages |-> messages,
     lastUserMessage |-> lastUserMessage,
     classifierContent |-> classifierContent,
     relevanceResult |-> relevanceResult, rewrittenQuery |-> rewrittenQuery,
     embedAttempts |-> embedAttempts, embedding |-> embedding,
     similarDocs |-> similarDocs, contextTexts |-> contextTexts,
     linksData |-> linksData, response |-> response,
     traceSettings |-> traceSettings, streamCall |-> streamCall,
     httpResponses |-> httpResponses, calls |-> calls, failures |-> failures,
     connection |-> connection, generation |-> generation,
     delivered |-> delivered]

\* An invocation that finds lastUserMessage as the other invocation left it
\* (a variable of the module, not of the invocation).
ResumeSharingQuery(r) ==
    /\ pc' = r.pc
    /\ body' = r.body
    /\ messages' = r.messages
    /\ lastUserMessage' = lastUserMessage
    /\ classifierContent' = r.classifierContent
    /\ relevanceResult' = r.relevanceResult
    /\ rewrittenQuery' = r.rewrittenQuery
    /\ embedAttempts' = r.embedAttempts
    /\ embedding' = r.embedding
    /\ similarDocs' = r.similarDocs
    /\ contextTexts' = r.contextTexts
    /\ linksData' = r.linksData
    /\ response' = r.response
    /\ traceSettings' = r.traceSettings
    /\ streamCall' = r.streamCall
    /\ httpResponses' = r.httpResponses
    /\ calls' = r.calls
    /\ failures' = r.failures
    /\ connection' = r.connection
    /\ generation' = r.generation
    /\ delivered' = r.delivered

\* An invocation goes on after an await: it finds its variables as it left
\* them.
Resume(r) ==
    /\ pc' = r.pc
    /\ body' = r.body
    /\ messages' = r.messages
    /\ lastUserMessage' = r.lastUserMessage
    /\ classifierContent' = r.classifierContent
    /\ relevanceResult' = r.relevanceResult
    /\ rewrittenQuery' = r.rewrittenQuery
    /\ embedAttempts' = r.embedAttempts
    /\ embedding' = r.embedding
    /\ similarDocs' = r.similarDocs
    /\ contextTexts' = r.contextTexts
    /\ linksData' = r.linksData
    /\ response' = r.response
    /\ traceSettings' = r.traceSettings
    /\ streamCall' = r.streamCall
    /\ httpResponses' = r.httpResponses
    /\ calls' = r.calls
    /\ failures' = r.failures
    /\ connection' = r.connection
    /\ generation' = r.generation
    /\ delivered' = r.delivered

\* The event loop turns from one invocation, waiting at an await or for its
\* stream, to the other.
Switch ==
    /\ suspended # None
    /\ suspended' = Some(locals)
    /\ Resume(suspended[1])
    /\ UNCHANGED << langsmithKey, corpus, retrievalVars, textVars,
                    clientVars >>

\* The stream delivers a token to the caller.
StreamEmits ==
    /\ pc = "Streaming"
    /\ generation = "running"
    /\ connection = "open"
    /\ delivered < MaxTokens
    /\ delivered' = delivered + 1
    /\ UNCHANGED << pc, inputVars, otherVars, connection, generation, messages,
                    lastUserMessage, classifierContent, relevanceResult,
                    rewrittenQuery, embedAttempts, embedding, similarDocs,
                    contextTexts, linksData, response, traceSettings,
                    streamCall, httpResponses, calls, failures >>

\* The caller closes the connection while the stream is open.  streamText was
\* given no abortSignal and POST has returned: whether the generation is
\* stopped is left to the runtime, and it may as well run to its end.
CallerCloses ==
    /\ pc = "Streaming"
    /\ generation = "running"
    /\ connection = "open"
    /\ connection' = "closed"
    /\ \/ generation' = "running" /\ pc' = pc
       \/ generation' = "aborted" /\ pc' = "Done"
    /\ UNCHANGED << inputVars, otherVars, delivered, messages,
                    lastUserMessage, classifierContent, relevanceResult,
                    rewrittenQuery, embedAttempts, embedding, similarDocs,
                    contextTexts, linksData, response, traceSettings,
                    streamCall, httpResponses, calls, failures >>

\* A request body with one user message.
Asking(question) ==
    [kind |-> "array", messages |-> << [role |-> "user", content |-> question] >>]

\* The bodies of the two requests: two that are rejected (one does not parse,
\* one has no messages array), two with different questions, two with the
\* same question.
ConcurrentBodies ==
    { << [kind |-> "invalidJSON", messages |-> <<>>],
         [kind |-> "notArray", messages |-> <<>>] >>,
      << Asking(<<"h","i">>), Asking(<<"g","l","u","e">>) >>,
      << Asking(<<"h","i">>), Asking(<<"h","i">>) >> }

\* Two invocations of POST in flight, this one and the suspended one, on a
\* table with no two rows at the same distance.
InitConcurrent ==
    /\ pc = "Start"
    /\ langsmithKey \in BOOLEAN
    /\ corpus = { Row(1, "1", Some(<<1, 0>>)), Row(3, "3", None) }
    /\ NothingDoneYet
    /\ searchInput = None
    /\ searchOutputs = <<>>
    /\ contexts = <<>>
    /\ NoTextInput
    /\ NoClient
    /\ \E pair \in ConcurrentBodies :
          /\ body = pair[1]
          /\ suspended = Some([locals EXCEPT !.body = pair[2]])

\* The steps of the running invocation, of its stream, and the turn to the
\* other invocation.  The providers answer from smaller sets than in Spec: the
\* classifier one of the four tokens, the rewriter 'q2', the embedding
\* provider one vector, the links route one body, the completions 'ok'.
NextConcurrent ==
    \/ ParseFails
    \/ ValidationFails
    \/ ConfigurationFails
    \/ Accept
    \/ CheckRelevanceThrows
    \/ CheckRelevance /\ classifierContent' \in { Some(t) : t \in RelevanceTokens }
    \/ GreetingThrows
    \/ Greeting /\ response'[1].text # <<>>
    \/ Inappropriate
    \/ NotRelevantThrows
    \/ NotRelevant /\ response'[1].text # <<>>
    \/ RewriteThrows
    \/ Rewrite /\ rewrittenQuery' = Some(<<"q","2">>)
    \/ EmbedSucceeds /\ embedding' = Some(<<1, 0>>)
    \/ EmbedAttemptFails
    \/ EmbedTimesOut
    \/ SearchThrows
    \/ Search
    \/ LinksThrows
    \/ Links /\ linksData' = Some([status |-> "ok"])
    \/ GenerateThrows
    \/ Generate /\ response'[1].text # <<>>
    \/ TraceHandoff
    \/ TraceHandoffThrows
    \/ StreamThrows
    \/ Stream
    \/ StreamEnds
    \/ StreamEmits
    \/ CallerCloses
    \/ Switch

SpecConcurrent == InitConcurrent /\ [][NextConcurrent]_vars


\* ------------------------------ the text functions of the two prompts alone

\* Either checkRelevance's return expression is given a raw content, or
\* rewriteQuery is called with a query and the outcome of its completion call.
InitText ==
    /\ pc = "Start"
    /\ body = [kind |-> "array", messages |-> <<>>]
    /\ langsmithKey = TRUE
    /\ corpus = {}
    /\ NothingDoneYet
    /\ searchInput = None
    /\ searchOutputs = <<>>
    /\ contexts = <<>>
    /\ suspended = None
    /\ NoClient
    /\ normOutputs = <<>>
    /\ rwOutput = None
    /\ \/ /\ normInput \in { Some(c) : c \in RawContents }
          /\ rwInput = None
       \/ /\ normInput = None
          /\ rwInput \in { Some([query |-> q, threw |-> t, content |-> c]) :
                              q \in Contents, t \in BOOLEAN, c \in RewriteRawContents }

\* The return expression of checkRelevance, applied to the raw content and
\* then to its own result.
Normalize ==
    /\ normInput # None
    /\ Len(normOutputs) < MaxApplications
    /\ normOutputs' = Append(normOutputs,
                             normalizeRelevance(IF normOutputs = <<>>
                                                THEN normInput[1]
                                                ELSE Some(normOutputs[Len(normOutputs)])))
    /\ UNCHANGED << pc, inputVars, retrievalVars, streamVars, suspended,
                    messages, lastUserMessage, classifierContent,
                    relevanceResult, rewrittenQuery, embedAttempts, embedding,
                    similarDocs, contextTexts, linksData, response,
                    traceSettings, streamCall, httpResponses, calls, failures,
                    normInput, rwInput, rwOutput, clientVars >>

\* rewriteQuery returns.
RewriteReturns ==
    /\ rwInput # None
    /\ rwOutput = None
    /\ rwOutput' = Some(rewriteQuery(rwInput[1].query, rwInput[1].threw,
                                     rwInput[1].content))
    /\ UNCHANGED << pc, inputVars, retrievalVars, streamVars, suspended,
                    messages, lastUserMessage, classifierContent,
                    relevanceResult, rewrittenQuery, embedAttempts, embedding,
                    similarDocs, contextTexts, linksData, response,
                    traceSettings, streamCall, httpResponses, calls, failures,
                    normInput, normOutputs, rwInput, clientVars >>

NextText == Normalize \/ RewriteReturns

SpecText == InitText /\ [][NextText]_vars


\* ------------------------------------------------------------ the chat page
\* src/app/chat/page.tsx: the state of ChatPage (its useState cells, the ref
\* currentQuestionRef and what useChat reports), the chat requests, delayed
\* calls and onFinish calls it has pending, and the browser's localStorage and
\* sessionStorage.  An id is a text: uuidv4() yields << n >> for the n-th
\* call, '' is <<>>; a value that can be null is optional.

\* uuidv4(), crypto.randomUUID(): the n-th identifier handed out.
uuidv4(n) == << n >>

\* interface Session
Session(id, conversations) == [id |-> id, conversations |-> conversations]

\* const newConversation = { id: uuidv4(), question: currentQuestion, ... }
Conversation(id, question) == [id |-> id, question |-> question]

\* JavaScript truthiness of a string that can be null.
truthyId(id) == id # None /\ Truthy(id[1])

\* sessions.find(session => session.id === id)
findSession(ss, id) ==
    LET hits == { i \in DOMAIN ss : Some(ss[i].id) = id }
    IN  IF hits = {} THEN None ELSE Some(ss[SetMin(hits)])

\* What the search bar can hold when the user submits it (searchQuery).
Queries == { <<>>, <<" ">>, <<"q">> }

\* The suggested questions /api/random answered with.
randomQuestions == << <<"q">> >>

\* What localStorage holds when the page is first opened: nothing, or an
\* empty list of sessions under 'chat_sessions'.
InitialStorages ==
    { [chat_sessions |-> s, current_session_id |-> None] : s \in {None, Some(<<>>)} }

\* response.data.sessions of /api/get-session: absent, an empty list, or a
\* session this browser has not created, with one conversation.
RecoveredSessions ==
    { None, Some(<<>>),
      Some(<< Session(uuidv4(MaxUuids + 1),
                      << Conversation(uuidv4(MaxUuids + 2), <<"q">>) >>) >>) }

\* useEffect "persist sessions" (lines 495-503).
persistSessions(p) ==
    IF Len(p.sessions) > 0
    THEN [p EXCEPT !.localStorage.chat_sessions = Some(p.sessions)]
    ELSE p

\* useEffect "maintain current session" (lines 506-519; the effect of lines
\* 939-945 repeats its second half).
maintainCurrentSession(p) ==
    IF truthyId(p.currentSessionId)
    THEN LET q == [p EXCEPT !.localStorage.current_session_id = p.currentSessionId]
             currentSession == findSession(p.sessions, p.currentSessionId)
         IN  IF currentSession # None
             THEN [q EXCEPT !.currentConversation = currentSession[1].conversations,
                            !.showInitialQuestions =
                                (Len(currentSession[1].conversations) = 0)]
             ELSE q
    ELSE p

\* useEffect of lines 1060-1065: recoverState() is called, and its GET sent.
recoverIfLost(p) ==
    IF /\ p.userId
       /\ (Len(p.sessions) = 0 \/ ~truthyId(p.currentSessionId))
       /\ ~p.is_refreshing
    THEN [p EXCEPT !.recovering = @ + 1]
    ELSE p

\* The effects React runs after a handler took the page from old to new:
\* each effect runs when one of its dependencies changed (sessions changes
\* with every setSessions call, which builds a new array).
rendered(old, new, sessionsSet) ==
    LET currentChanged == new.currentSessionId # old.currentSessionId
        a == IF sessionsSet THEN persistSessions(new) ELSE new
        b == IF sessionsSet \/ currentChanged THEN maintainCurrentSession(a) ELSE a
    IN  IF \/ new.userId # old.userId
           \/ Len(new.sessions) # Len(old.sessions)
           \/ currentChanged
        THEN recoverIfLost(b)
        ELSE b

\* The three useState initializers of lines 449-492 and the other cells'
\* initial values, for a page opened on the given storage, and then the
\* effects of the first render.
mount(storage, refreshing, userId, n) ==
    LET fresh == storage.chat_sessions = None
        ss == IF fresh THEN << Session(uuidv4(n), <<>>) >>
              ELSE storage.chat_sessions[1]
        saved == storage.current_session_id
        current == IF truthyId(saved) THEN saved
                   ELSE IF Len(ss) > 0 THEN Some(ss[1].id) ELSE None
        savedCurrent == findSession(ss, saved)
        p == [ sessions |-> ss,
               currentSessionId |-> current,
               currentConversation |->
                   IF fresh \/ savedCurrent = None THEN <<>>
                   ELSE savedCurrent[1].conversations,
               showInitialQuestions |-> TRUE,
               isStreaming |-> FALSE,
               isSecondResponseLoading |-> FALSE,
               currentQuestion |-> <<>>,
               isLoading |-> FALSE,
               requests |-> <<>>,
               timers |-> <<>>,
               finishing |-> <<>>,
               finished |-> None,
               created |-> FALSE,
               recovering |-> 0,
               userId |-> userId,
               localStorage |-> storage,
               is_refreshing |-> refreshing,
               loaded |-> FALSE,
               nextId |-> IF fresh THEN n + 1 ELSE n ]
    IN  recoverIfLost(maintainCurrentSession(persistSessions(p)))

\* The variables of the POST handler.
requestVars == << pc, inputVars, messages, lastUserMessage, classifierContent,
                  relevanceResult, rewrittenQuery, embedAttempts, embedding,
                  similarDocs, contextTexts, linksData, response,
                  traceSettings, streamCall, httpResponses, calls, failures,
                  streamVars >>

\* No request has reached the route.
NoRequest ==
    /\ pc = "Start"
    /\ body = [kind |-> "array", messages |-> <<>>]
    /\ langsmithKey = TRUE
    /\ corpus = {}
    /\ NothingDoneYet
    /\ searchInput = None
    /\ searchOutputs = <<>>
    /\ contexts = <<>>
    /\ suspended = None
    /\ NoTextInput

\* The page is opened, by a signed-in user or by nobody, and has loaded.
InitPage ==
    /\ NoRequest
    /\ hook = None
    /\ \E storage \in InitialStorages, userId \in BOOLEAN :
          page = [mount(storage, FALSE, userId, 1) EXCEPT !.loaded = TRUE]

\* A handler of the page took it to state p.  page.finished tells by which
\* path a call of onFinish has just returned, if the handler was one, and
\* page.created whether it was handleNewConversation.
Page(p) ==
    /\ page' = [p EXCEPT !.finished = None, !.created = FALSE]
    /\ UNCHANGED << requestVars, retrievalVars, textVars, suspended, hook >>

Finished(p, path) ==
    /\ page' = [p EXCEPT !.finished = Some(path), !.created = FALSE]
    /\ UNCHANGED << requestVars, retrievalVars, textVars, suspended, hook >>

Created(p) ==
    /\ page' = [p EXCEPT !.finished = None, !.created = TRUE]
    /\ UNCHANGED << requestVars, retrievalVars, textVars, suspended, hook >>

\* A chat page is open.
PageOpen == DOMAIN page # {}

\* uuidv4() has an identifier left to hand out.
CanUuid == page.nextId <= MaxUuids

\* How many chat requests p has pending: waiting for their delay, in flight,
\* or waiting in onFinish for the links service.
Pending(p) == Len(p.timers) + Len(p.requests) + Len(p.finishing)

\* const manageSession (lines 1080-1086)
manageSession(p) ==
    LET newSession == Session(uuidv4(p.nextId), <<>>)
    IN  [p EXCEPT !.sessions = Append(@, newSession),
                  !.currentSessionId = Some(newSession.id),
                  !.currentConversation = <<>>,
                  !.nextId = @ + 1]

\* useChat's append: the request is sent and isLoading becomes true.
append(p) ==
    [p EXCEPT !.requests = Append(@, "submitted"),
              !.isLoading = TRUE]

\* The guard of handleSearch (line 764), on the isLoading its closure holds.
returnsAtOnce(query, isLoading) == trim(query) = <<>> \/ isLoading

\* const handleSearch (lines 760-791), up to the call of append; isLoading
\* and currentSessionId are the values of the render that made the closure.
handleSearch(p, query, isLoading, currentSessionId) ==
    IF returnsAtOnce(query, isLoading) THEN p
    ELSE LET q == [p EXCEPT !.currentQuestion = query,
                            !.showInitialQuestions = FALSE]
         IN  append(IF ~truthyId(currentSessionId) THEN manageSession(q) ELSE q)

\* A call of handleSearch, with what it needs from the bounds and the
\* effects that follow it.
callHandleSearch(p, query, isLoading, currentSessionId) ==
    LET creates == ~returnsAtOnce(query, isLoading) /\ ~truthyId(currentSessionId)
    IN  /\ ~returnsAtOnce(query, isLoading) => Pending(p) < MaxRequests
        /\ creates => CanUuid
        /\ Page(rendered(page, handleSearch(p, query, isLoading, currentSessionId),
                         creates))

\* <form onSubmit={onSearch}>: handleSearch of the current render, with
\* whatever the search bar holds.
onSubmit ==
    /\ PageOpen
    /\ \E searchQuery \in Queries :
           callHandleSearch(page, searchQuery, page.isLoading, page.currentSessionId)

\* SearchBar.handleKeyPress on Enter without Shift (lines 1220-1227).
handleKeyPress ==
    /\ PageOpen
    /\ \E searchQuery \in Queries :
           /\ ~page.isLoading /\ trim(searchQuery) # <<>>
           /\ callHandleSearch(page, searchQuery, page.isLoading,
                               page.currentSessionId)

\* The suggested questions are on screen (line 1128).
QuestionsShown(p) ==
    /\ Len(p.currentConversation) = 0
    /\ p.showInitialQuestions
    /\ ~p.isStreaming
    /\ ~p.isLoading

\* const handleQuestionSelect (lines 970-981): the click on a suggested
\* question; the delayed call holds handleSearch of the render of the click.
handleQuestionSelect ==
    /\ PageOpen
    /\ \E index \in DOMAIN randomQuestions :
           /\ QuestionsShown(page)
           /\ Pending(page) < MaxRequests
           /\ Page([page EXCEPT
                       !.showInitialQuestions = FALSE,
                       !.currentConversation = <<>>,
                       !.timers = Append(@, [index |-> index,
                                             isLoading |-> page.isLoading,
                                             currentSessionId |-> page.currentSessionId])])

\* The 100 ms have passed: () => handleSearch(null, index).
delayedSearch ==
    /\ PageOpen
    /\ page.timers # <<>>
    /\ LET timer == Head(page.timers)
       IN  callHandleSearch([page EXCEPT !.timers = Tail(@)], randomQuestions[timer.index],
                  timer.isLoading, timer.currentSessionId)

\* s without its i-th element.
without(s, i) == SubSeq(s, 1, i - 1) \o SubSeq(s, i + 1, Len(s))

\* useChat onResponse (lines 628-633): the response of a request has begun.
onResponse ==
    /\ PageOpen
    /\ \E i \in DOMAIN page.requests :
           /\ page.requests[i] = "submitted"
           /\ Page([page EXCEPT !.requests[i] = "streaming",
                                !.isStreaming = TRUE])

\* The request failed: useChat reports the error, isLoading becomes false and
\* append resolves, so that handleSearch goes on with line 782.
requestFails ==
    /\ PageOpen
    /\ \E i \in DOMAIN page.requests :
           Page([page EXCEPT !.requests = without(@, i),
                             !.isLoading = FALSE])

\* useChat onFinish (lines 634-642), up to its await: the streamed answer of
\* a request is complete; useChat sets isLoading to false and append
\* resolves (line 782).  The call either returns at once or waits for the
\* links service with the question and the session id it read.
onFinish ==
    /\ PageOpen
    /\ \E i \in DOMAIN page.requests :
           /\ page.requests[i] = "streaming"
           /\ LET p == [page EXCEPT !.requests = without(@, i),
                                    !.isLoading = FALSE,
                                    !.isStreaming = FALSE]
              IN  IF trim(page.currentQuestion) = <<>> \/ ~truthyId(page.currentSessionId)
                  THEN Finished(p, "returned")
                  ELSE Page([p EXCEPT
                               !.isSecondResponseLoading = TRUE,
                               !.finishing = Append(@,
                                   [currentQuestion |-> page.currentQuestion,
                                    currentSessionId |-> page.currentSessionId])])

\* The setSessions updater of onFinish (lines 664-678).
storeConversation(ss, currentSessionId, newConversation) ==
    [ i \in DOMAIN ss |->
        IF Some(ss[i].id) = currentSessionId
        THEN [ss[i] EXCEPT !.conversations = Append(@, newConversation)]
        ELSE ss[i] ]

\* onFinish without its finally block.
finallySkipped(p) == p

\* The finally block of onFinish (lines 686-689).
finally(p) == [p EXCEPT !.isSecondResponseLoading = FALSE]

\* onFinish after its await (lines 648-689): /api/links answered, with status
\* 'not_relevant' or with references for the answer.
linksAnswers ==
    /\ PageOpen
    /\ \E i \in DOMAIN page.finishing, notRelevant \in BOOLEAN :
           LET call == page.finishing[i]
               p == [page EXCEPT !.finishing = without(@, i)]
           IN  IF notRelevant
               THEN Finished(finally([p EXCEPT !.isSecondResponseLoading = FALSE]),
                             "not_relevant")
               ELSE /\ CanUuid
                    /\ LET newConversation == Conversation(uuidv4(page.nextId),
                                                           call.currentQuestion)
                           updatedSessions == storeConversation(page.sessions,
                                                  call.currentSessionId, newConversation)
                       IN  Finished(rendered(page,
                             finally([p EXCEPT
                               !.sessions = updatedSessions,
                               !.localStorage.chat_sessions = Some(updatedSessions),
                               !.currentConversation = Append(@, newConversation),
                               !.nextId = @ + 1]),
                             TRUE), "stored")

\* onFinish after its await: the request to /api/links failed (lines 683-689).
linksFails ==
    /\ PageOpen
    /\ \E i \in DOMAIN page.finishing :
           Finished(finally([page EXCEPT !.finishing = without(@, i)]), "failed")

\* handleNewConversation with an updater that returns the new session alone.
handleNewConversationForgetsHistory ==
    /\ PageOpen
    /\ CanUuid
    /\ LET newSession == Session(uuidv4(page.nextId), <<>>)
           updatedSessions == << newSession >>
       IN  Created(rendered(page,
                     [page EXCEPT !.sessions = updatedSessions,
                                  !.localStorage.chat_sessions = Some(updatedSessions),
                                  !.currentSessionId = Some(newSession.id),
                                  !.currentConversation = <<>>,
                                  !.showInitialQuestions = TRUE,
                                  !.nextId = @ + 1],
                     TRUE))

\* const handleNewConversation (lines 1067-1078)
handleNewConversation ==
    /\ PageOpen
    /\ CanUuid
    /\ LET newSession == Session(uuidv4(page.nextId), <<>>)
           updatedSessions == Append(page.sessions, newSession)
       IN  Created(rendered(page,
                     [page EXCEPT !.sessions = updatedSessions,
                                  !.localStorage.chat_sessions = Some(updatedSessions),
                                  !.currentSessionId = Some(newSession.id),
                                  !.currentConversation = <<>>,
                                  !.showInitialQuestions = TRUE,
                                  !.nextId = @ + 1],
                     TRUE))

\* const handleSessionSelect (lines 983-990), for any id the header passes.
handleSessionSelect ==
    /\ PageOpen
    /\ \E n \in 1..(MaxUuids + 2) :
           LET sessionId == uuidv4(n)
               selectedSession == findSession(page.sessions, Some(sessionId))
           IN  /\ Some(sessionId) # page.currentSessionId
               /\ IF selectedSession # None
                  THEN Page(rendered(page,
                         [page EXCEPT
                            !.currentSessionId = Some(sessionId),
                            !.currentConversation = selectedSession[1].conversations,
                            !.showInitialQuestions =
                                (Len(selectedSession[1].conversations) = 0)],
                         FALSE))
                  ELSE Page(page)

\* recoverState after its await (lines 1049-1052): /api/get-session answered.
recoverState ==
    /\ PageOpen
    /\ \E data \in RecoveredSessions :
           /\ page.recovering > 0
           /\ LET p == [page EXCEPT !.recovering = @ - 1]
              IN  IF data # None
                  THEN Page(rendered(page,
                         [p EXCEPT !.sessions = data[1],
                                   !.currentSessionId =
                                       IF Len(data[1]) > 0 THEN Some(data[1][1].id)
                                       ELSE Some(<<>>)],
                         TRUE))
                  ELSE Page(p)

\* recoverState after its await: the request failed (lines 1054-1057).
recoverStateFails ==
    /\ PageOpen
    /\ page.recovering > 0
    /\ Page([page EXCEPT !.recovering = @ - 1])

\* handleBrowserRefresh (lines 523-557), before any render: the state it
\* sets and what it writes to the two storages.
handleBrowserRefresh(p) ==
    LET newSession == Session(uuidv4(p.nextId), <<>>)
        currentSessions == p.localStorage.chat_sessions
    IN  [p EXCEPT !.is_refreshing = TRUE,
                  !.currentSessionId = Some(newSession.id),
                  !.currentConversation = <<>>,
                  !.showInitialQuestions = TRUE,
                  !.isStreaming = FALSE,
                  !.localStorage.chat_sessions =
                      IF currentSessions # None
                      THEN Some(Append(currentSessions[1], newSession))
                      ELSE None,
                  !.nextId = @ + 1]

\* 'beforeunload' is handled and the user, asked by the browser (lines
\* 553-556), stays on the page.
refreshCancelled ==
    /\ PageOpen
    /\ CanUuid
    /\ Page(rendered(page, handleBrowserRefresh(page), FALSE))

\* 'beforeunload' is handled and the page is loaded anew, on the storage as
\* the handler left it or as the effects of a last render left it.  What the
\* old page had pending is gone with it.
refresh ==
    /\ PageOpen
    /\ CanUuid
    /\ \E left \in { handleBrowserRefresh(page),
                     rendered(page, handleBrowserRefresh(page), FALSE) } :
          Page(mount(left.localStorage, left.is_refreshing, left.userId,
                     left.nextId))

\* handleLoad (lines 559-585): the 'load' event of a page loaded anew.
handleLoad ==
    /\ PageOpen
    /\ ~page.loaded
    /\ LET savedSessions == page.localStorage.chat_sessions
           restores == page.is_refreshing /\ savedSessions # None
           restored ==
               IF ~restores THEN page
               ELSE IF Len(savedSessions[1]) = 0
               THEN [page EXCEPT !.sessions = savedSessions[1]]
               ELSE LET lastSession == savedSessions[1][Len(savedSessions[1])]
                    IN  [page EXCEPT
                           !.sessions = savedSessions[1],
                           !.currentSessionId = Some(lastSession.id),
                           !.currentConversation = lastSession.conversations]
       IN  Page(rendered(page,
                  IF page.is_refreshing
                  THEN [restored EXCEPT !.showInitialQuestions = TRUE,
                                        !.isStreaming = FALSE,
                                        !.is_refreshing = FALSE,
                                        !.loaded = TRUE]
                  ELSE [page EXCEPT !.loaded = TRUE],
                  restores))

NextPage ==
    \/ onSubmit
    \/ handleKeyPress
    \/ handleQuestionSelect
    \/ delayedSearch
    \/ onResponse
    \/ requestFails
    \/ onFinish
    \/ linksAnswers
    \/ linksFails
    \/ handleNewConversation
    \/ handleSessionSelect
    \/ recoverState
    \/ recoverStateFails
    \/ refreshCancelled
    \/ refresh
    \/ handleLoad

SpecPage == InitPage /\ [][NextPage]_vars



\* --------------------------------------------------------- the session hook
\* useSession (src/unnamed/part_000, lines 83-263): the state of one mounted
\* hook, the two module-level variables it shares with the other components,
\* the GETs of /api/get-session it has pending (each with the currentSessionId
\* and sessions its two setters had closed over when loadSessions was
\* called), how many GETs it has sent, and the body of the POST to
\* /api/set-session its last render sent, if it sent one.

\* interface Conversation, of which the hook reads the timestamp.
timedConversation(id, timestamp) == [id |-> id, timestamp |-> timestamp]

\* What /api/get-session answers with: no sessions, two sessions with one
\* conversation each, the older one first, or a session without conversations
\* and one with a conversation.
SavedSessions ==
    { <<>>,
      << Session(uuidv4(MaxUuids + 1),
                 << timedConversation(uuidv4(MaxUuids + 3), MaxUuids + 1) >>),
         Session(uuidv4(MaxUuids + 2),
                 << timedConversation(uuidv4(MaxUuids + 4), MaxUuids + 2) >>) >>,
      << Session(uuidv4(MaxUuids + 1), <<>>),
         Session(uuidv4(MaxUuids + 2),
                 << timedConversation(uuidv4(MaxUuids + 4), MaxUuids + 2) >>) >> }

\* savedSessions.sort(...) of lines 181-185: by the timestamp of the first
\* conversation, latest first, sessions of equal time in their order.  A
\* session without conversations is compared through new Date('0'), whose
\* time depends on the engine: it can come to stand anywhere.
sortedSessions(savedSessions) ==
    LET n == Len(savedSessions)
        timed(s) == Len(s.conversations) > 0
        time(s) == s.conversations[1].timestamp
    IN  { [ i \in 1..n |-> savedSessions[f[i]] ] :
            f \in { g \in Permutations(1..n) :
                      \A i, j \in 1..n :
                         (i < j /\ timed(savedSessions[g[i]])
                                /\ timed(savedSessions[g[j]])) =>
                            \/ time(savedSessions[g[i]]) > time(savedSessions[g[j]])
                            \/ /\ time(savedSessions[g[i]]) = time(savedSessions[g[j]])
                               /\ g[i] < g[j] } }

\* const updateGlobalState (lines 145-148)
updateGlobalState(h, newSessions, newCurrentId) ==
    [h EXCEPT !.globalSessions = newSessions,
              !.globalCurrentSessionId = newCurrentId]

\* const setSessionsWithGlobal (lines 151-157); currentSessionId is the value
\* of the render that created the callback.
setSessionsWithGlobal(h, nextSessions, currentSessionId) ==
    updateGlobalState([h EXCEPT !.sessions = nextSessions],
                      nextSessions, currentSessionId)

\* const setCurrentSessionIdWithGlobal (lines 159-165); sessions is the value
\* of the render that created the callback.
setCurrentSessionIdWithGlobal(h, nextId, sessions) ==
    updateGlobalState([h EXCEPT !.currentSessionId = nextId], sessions, nextId)

\* The two effects (lines 168-200 and 203-219) after a render took the hook
\* from old to new: loadSessions is called when userId, isInitialized or one
\* of the two setters changed (they change with currentSessionId and with
\* sessions), updateDatabase when userId, sessions or isInitialized changed.
hookRendered(old, new, sessionsSet) ==
    LET loads == \/ new.userId # old.userId
                 \/ new.isInitialized # old.isInitialized
                 \/ new.currentSessionId # old.currentSessionId
                 \/ sessionsSet
        updates == \/ new.userId # old.userId
                   \/ new.isInitialized # old.isInitialized
                   \/ sessionsSet
        a == IF loads /\ new.userId /\ ~new.isInitialized
             THEN [new EXCEPT !.loads = Append(@,
                                  [sessions |-> new.sessions,
                                   currentSessionId |-> new.currentSessionId]),
                              !.gets = @ + 1]
             ELSE new
    IN  [a EXCEPT !.posted =
            IF updates /\ new.userId /\ new.isInitialized /\ Len(new.sessions) # 0
            THEN Some(new.sessions)
            ELSE None]

\* useSession is called for the first time: the module-level variables are
\* [] and null, and the effects of the first render have run.
hookMount(userId) ==
    LET h == [ userId |-> userId,
               sessions |-> <<>>,
               currentSessionId |-> None,
               isLoading |-> TRUE,
               isInitialized |-> FALSE,
               globalSessions |-> <<>>,
               globalCurrentSessionId |-> None,
               loads |-> <<>>,
               gets |-> 0,
               posted |-> None,
               created |-> FALSE,
               nextId |-> 1 ]
    IN  hookRendered([h EXCEPT !.userId = ~userId], h, FALSE)

\* A component mounts the hook, with a user signed in or not.
InitHook ==
    /\ NoRequest
    /\ page = None
    /\ \E userId \in BOOLEAN : hook = hookMount(userId)

HookMounted == DOMAIN hook # {}

\* A call took the hook to state h, and React has rendered it; hook.created
\* tells whether the call was createNewSession.
HookCall(h, sessionsSet, created) ==
    LET next == hookRendered(hook, h, sessionsSet)
    IN  /\ next.gets <= MaxLoads
        /\ hook' = [next EXCEPT !.created = created]
        /\ UNCHANGED << requestVars, retrievalVars, textVars, suspended, page >>

Hook(h, sessionsSet) == HookCall(h, sessionsSet, FALSE)

\* useAuth: the user signs in or out.
useAuth ==
    /\ HookMounted
    /\ Hook([hook EXCEPT !.userId = ~@], FALSE)

\* A component calls the setSessions the hook returned: with [], or with an
\* updater that drops the first session.
setSessions ==
    /\ HookMounted
    /\ \E newSessions \in { <<>> } \cup
                          (IF hook.sessions = <<>> THEN {} ELSE { Tail(hook.sessions) }) :
          Hook(setSessionsWithGlobal(hook, newSessions, hook.currentSessionId), TRUE)

\* A component calls the setCurrentSessionId the hook returned: with null or
\* with the id of one of the sessions.
setCurrentSessionId ==
    /\ HookMounted
    /\ \E newId \in { None } \cup { Some(hook.sessions[i].id) : i \in DOMAIN hook.sessions } :
          /\ newId # hook.currentSessionId
          /\ Hook(setCurrentSessionIdWithGlobal(hook, newId, hook.sessions), FALSE)

\* const updateSessionConversations (lines 221-240), with a conversation the
\* caller has made.
updateSessionConversations ==
    /\ HookMounted
    /\ hook.nextId <= MaxUuids
    /\ \E n \in 1..(MaxUuids + 1) :
          LET sessionId == uuidv4(n)
              newConversation == timedConversation(uuidv4(hook.nextId), hook.nextId)
              updatedSessions ==
                  [ i \in DOMAIN hook.sessions |->
                      IF hook.sessions[i].id = sessionId
                      THEN [hook.sessions[i] EXCEPT
                              !.conversations = Append(@, newConversation)]
                      ELSE hook.sessions[i] ]
          IN  IF ~hook.userId THEN Hook(hook, FALSE)
              ELSE Hook(setSessionsWithGlobal([hook EXCEPT !.nextId = @ + 1],
                                              updatedSessions, hook.currentSessionId),
                        TRUE)

\* const createNewSession (lines 242-251): the two setters, one after the
\* other, each with what it closed over in the render that made them.
createNewSession ==
    /\ HookMounted
    /\ hook.nextId <= MaxUuids
    /\ LET newSession == Session(uuidv4(hook.nextId), <<>>)
           a == setSessionsWithGlobal([hook EXCEPT !.nextId = @ + 1],
                                      << newSession >> \o hook.sessions,
                                      hook.currentSessionId)
       IN  HookCall(setCurrentSessionIdWithGlobal(a, Some(newSession.id),
                                                  hook.sessions),
                    TRUE, TRUE)

\* loadSessions after its await (lines 178-196): /api/get-session answered.
loadSessions ==
    /\ HookMounted
    /\ \E i \in DOMAIN hook.loads, savedSessions \in SavedSessions :
          LET closure == hook.loads[i]
              h == [hook EXCEPT !.loads = without(@, i),
                                !.isLoading = FALSE,
                                !.isInitialized = TRUE]
          IN  IF Len(savedSessions) > 0
              THEN \E sorted \in sortedSessions(savedSessions) :
                     Hook(setCurrentSessionIdWithGlobal(
                            setSessionsWithGlobal(h, sorted, closure.currentSessionId),
                            Some(sorted[1].id), closure.sessions),
                          TRUE)
              ELSE Hook(h, FALSE)

\* loadSessions after its await: the request failed (lines 190-196).
loadSessionsFails ==
    /\ HookMounted
    /\ \E i \in DOMAIN hook.loads :
          Hook([hook EXCEPT !.loads = without(@, i),
                            !.isLoading = FALSE,
                            !.isInitialized = TRUE], FALSE)

NextHook ==
    \/ useAuth
    \/ setSessions
    \/ setCurrentSessionId
    \/ updateSessionConversations
    \/ createNewSession
    \/ loadSessions
    \/ loadSessionsFails

SpecHook == InitHook /\ [][NextHook]_vars

\* ------------------------------------------------ the page, or the hook

\* Either a chat page is opened or a component mounts the hook: the page
\* imports useSession and does not call it, so that the two never share
\* state.
InitClient == InitPage \/ InitHook

NextClient ==
    \/ onSubmit
    \/ handleKeyPress
    \/ handleQuestionSelect
    \/ delayedSearch
    \/ onResponse
    \/ requestFails
    \/ onFinish
    \/ linksAnswers
    \/ linksFails
    \/ handleNewConversation
    \/ handleSessionSelect
    \/ recoverState
    \/ recoverStateFails
    \/ refreshCancelled
    \/ refresh
    \/ handleLoad
    \/ useAuth
    \/ setSessions
    \/ setCurrentSessionId
    \/ updateSessionConversations
    \/ createNewSession
    \/ loadSessions
    \/ loadSessionsFails

SpecClient == InitClient /\ [][NextClient]_vars



\* ------------------------------------------------------------- properties

Called(stage) == \E i \in DOMAIN calls : calls[i].stage = stage
CallsOf(stage) == { i \in DOMAIN calls : calls[i].stage = stage }
Threw(stage) == \E i \in DOMAIN failures : failures[i] = stage
Classified == relevanceResult # None
ValidRequest == body.kind = "array"

\* C1: a classifier output that, trimmed and uppercased, is none of the four
\* tokens is handled as NotRelevant: the rewriter, the embedding call and
\* the vector search are never invoked, the request never stands in the
\* relevant code, and the result, once built, has type 'not-relevant'.
C1_UnparseableHandledAsNotRelevant ==
    ( /\ Classified
      /\ lastUserMessage # <<>>
      /\ classifierContent # None
      /\ toUpperCase(trim(classifierContent[1])) \notin RelevanceTokens )
    => /\ ~Called("rewriteQuery") /\ ~Called("embed") /\ ~Called("searchNeonDb")
       /\ pc \notin {"Rewrite", "Embed", "Search", "Links", "Generate"}
       /\ response # None => response[1].type = "not-relevant"

\* C2: embed and searchNeonDb are invoked only on a request whose relevance
\* label is Relevant (never for Greeting, Inappropriate, NotRelevant).
C2_RetrievalOnlyWhenRelevant ==
    (lastUserMessage # <<>> /\ (Called("embed") \/ Called("searchNeonDb")))
        => relevanceResult = Some(RELEVANT)

FatalStages ==
    {"checkRelevance", "greetingCompletion", "notRelevantCompletion",
     "embed", "searchNeonDb", "generate"}

\* C3: when the classifier call, the greeting or not-relevant completion, the
\* embedding call, the vector search or the answer generation fails, the
\* request is Failed with exactly one error response, the failed call is the
\* last call made, nothing fails after it, no PipelineResponse exists, and
\* neither getSettings nor streamText is called.
C3_FatalStageAborts ==
    \A i \in DOMAIN failures :
        failures[i] \in FatalStages =>
            /\ pc = "Failed"
            /\ Len(httpResponses) = 1
            /\ httpResponses[1].kind = "error"
            /\ httpResponses[1].status = StatusServerError
            /\ i = Len(failures)
            /\ calls # <<>> /\ calls[Len(calls)].stage = failures[i]
            /\ response = None
            /\ traceSettings = None /\ streamCall = None
            /\ ~Called("getSettings") /\ ~Called("streamText")

\* C3's case: the rewrite failed and was recovered, then embed() failed on
\* the attempt after its last retry.
C3_Witness ==
    /\ failures = << "rewriteQuery", "embed" >>
    /\ embedAttempts = maxRetries + 1
    /\ pc = "Failed"

\* C4: when the rewrite call fails, the rewritten query is the original
\* query, the request does not fail for it, and the embedding call is made
\* with the original query.
C4_RewriteFailureFallsBack ==
    Threw("rewriteQuery") =>
        /\ rewrittenQuery = Some(lastUserMessage)
        /\ failures[1] = "rewriteQuery"
        /\ pc = "Failed" => Len(failures) > 1
        /\ pc # "Embed" \/ embedAttempts > 0 => Called("embed")
        /\ \A i \in CallsOf("embed") : calls[i].arg = lastUserMessage
        /\ similarDocs # None => Called("searchNeonDb")

\* C4's case: the rewrite of a non-empty query failed and the search was made.
C4_Witness ==
    /\ Threw("rewriteQuery")
    /\ lastUserMessage # <<>>
    /\ Called("searchNeonDb")
    /\ similarDocs # None

\* C5: a request whose query is the empty string never reaches the
\* classifier.
C5_EmptyQueryNeverClassified ==
    (ValidRequest /\ findLastUserContent(body.messages) = <<>>)
        => ~Called("checkRelevance") /\ relevanceResult = None

\* C6: a body that is not JSON, is null, or has no messages array is answered
\* with one error response of status 400; no collaborator is called, no
\* PipelineResponse is built and no stream is started.
C6_MalformedBodyRejected ==
    (~ValidRequest /\ pc # "Start") =>
        /\ pc = "Failed"
        /\ Len(httpResponses) = 1
        /\ httpResponses[1].kind = "error"
        /\ httpResponses[1].status = StatusBadRequest
        /\ calls = <<>>
        /\ response = None /\ traceSettings = None /\ streamCall = None

\* C6's case: an object without a messages field was answered.
C6_Witness ==
    /\ body.kind = "noMessages"
    /\ pc = "Failed"
    /\ Len(httpResponses) = 1

\* C7: when getSettings throws, the request does not fail for it: the
\* streaming call is made next, and the assistant text it carries is the
\* text of the PipelineResponse that was handed to getSettings.
C7_TraceFailureSwallowed ==
    Threw("getSettings") =>
        /\ response # None
        /\ pc \in {"Stream", "Streaming", "Done", "Failed"}
        /\ pc # "Stream" => Called("streamText")
        /\ pc = "Failed" => failures[Len(failures)] = "streamText"
        /\ \A i \in CallsOf("streamText") : \A j \in CallsOf("getSettings") :
              LET m == calls[i].arg.messages
              IN  /\ j < i
                  /\ m[Len(m)].role = "assistant"
                  /\ m[Len(m)].content = calls[j].arg.metadata.output
                  /\ m[Len(m)].content = response[1].text

\* C7's case: getSettings threw on a chat result and the stream completed.
C7_Witness ==
    /\ Threw("getSettings")
    /\ pc = "Done"
    /\ response[1].type = "chat"
    /\ response[1].text # <<>>

\* C8: without the LangSmith API key no request is answered with an error
\* for that reason: a valid request that fails has a failed stage.
C8_MissingKeyIsNoOp ==
    (~langsmithKey /\ ValidRequest /\ pc = "Failed") => failures # <<>>

\* C9: on a Relevant request with a non-empty context, a failure of the
\* links request does not fail the request.
C9_LinksFailureHarmless ==
    ( /\ relevanceResult = Some(RELEVANT)
      /\ contextTexts # None /\ Truthy(contextTexts[1])
      /\ failures = << "links" >> )
    => pc # "Failed"

\* C10: on a Relevant request whose search succeeded, the answer-generation
\* call is made once the links step is over.
C10_GenerationFollowsRetrieval ==
    ( /\ relevanceResult = Some(RELEVANT)
      /\ lastUserMessage # <<>>
      /\ ~Threw("rewriteQuery")
      /\ similarDocs # None
      /\ pc \notin {"Links", "Generate"} )
    => Called("generate")

\* The place of a call in the order of the handler's code.
StageRank(stage) ==
    CASE stage = "checkRelevance" -> 1
      [] stage \in {"greetingCompletion", "notRelevantCompletion", "rewriteQuery"} -> 2
      [] stage = "embed" -> 3
      [] stage = "searchNeonDb" -> 4
      [] stage = "links" -> 5
      [] stage = "generate" -> 6
      [] stage = "getSettings" -> 7
      [] stage = "streamText" -> 8

\* C11: within a request the calls are made in the order classification,
\* rewriting, embedding, vector search, (links,) answer generation, and each
\* is made only after the call before it has returned its value: rewriting
\* after the relevance result, embedding with the rewritten query, search with
\* the embedding, generation with the context assembled from the search.
C11_StagesSequential ==
    /\ \A i, j \in DOMAIN calls :
          i < j => StageRank(calls[i].stage) < StageRank(calls[j].stage)
    /\ Called("rewriteQuery") => Classified
    /\ \A i \in CallsOf("embed") :
          rewrittenQuery # None /\ calls[i].arg = rewrittenQuery[1]
    /\ \A i \in CallsOf("searchNeonDb") :
          embedding # None /\ calls[i].arg.queryEmbedding = embedding[1]
    /\ \A i \in CallsOf("generate") :
          /\ similarDocs # None /\ contextTexts # None
          /\ calls[i].arg.context = contextTexts[1]

\* C11's case: a request that went through every stage of the relevant code.
C11_Witness ==
    /\ pc = "Done"
    /\ Len(calls) = 8
    /\ [ i \in 1..8 |-> calls[i].stage ] =
          << "checkRelevance", "rewriteQuery", "embed", "searchNeonDb",
             "links", "generate", "getSettings", "streamText" >>

\* C12: on a Relevant request that produced its result, the answer-generation
\* call was made exactly once; embed() was given the rewritten query, and the
\* question of the generation prompt is the last user message of the request.
C12_OneGenerationOriginalQuestion ==
    (relevanceResult = Some(RELEVANT) /\ response # None) =>
        /\ Cardinality(CallsOf("generate")) = 1
        /\ Cardinality(CallsOf("embed")) = 1
        /\ \A i \in CallsOf("embed") :
              /\ calls[i].arg = rewrittenQuery[1]
              /\ calls[i].arg = response[1].metadata.rewrittenQuery
        /\ \A i \in CallsOf("generate") :
              calls[i].arg.question = findLastUserContent(body.messages)

\* C12's case: the rewriter changed the query of a Relevant request, which
\* then got its answer.
C12_Witness ==
    /\ relevanceResult = Some(RELEVANT)
    /\ response # None
    /\ lastUserMessage = <<"g","l","u","e">>
    /\ rewrittenQuery = Some(<<"q","2">>)
    /\ pc = "Done"

StagesCalled == { calls[i].stage : i \in DOMAIN calls }

\* C13: on a request labelled INAPPROPRIATE no call is made between the
\* classification and the result; the result's text is the fixed string
\* whatever the input, its type is 'inappropriate' and its contextCount is 0.
C13_InappropriateIsCanned ==
    relevanceResult = Some(INAPPROPRIATE) =>
        /\ response = None => pc = "Inappropriate" /\ Len(calls) = 1
        /\ response # None =>
              /\ response[1].text = InappropriateAnswer
              /\ response[1].type = "inappropriate"
              /\ response[1].metadata.contextCount = 0
              /\ response[1].metadata.output = InappropriateAnswer
              /\ StagesCalled \subseteq {"checkRelevance", "getSettings", "streamText"}
              /\ calls[1].stage = "checkRelevance"

\* C13's case: a non-empty query labelled INAPPROPRIATE was answered.
C13_Witness ==
    /\ relevanceResult = Some(INAPPROPRIATE)
    /\ lastUserMessage = <<"g","l","u","e">>
    /\ response # None
    /\ pc = "Done"

\* C14: on a request labelled GREETING or NOT_RELEVANT exactly one completion
\* call, that of its branch, is made between the classification and the
\* result, and the result's type is 'greeting' or 'not-relevant' accordingly.
C14_OneCompletionPerDeflection ==
    response # None =>
        /\ relevanceResult = Some(GREETING) =>
              /\ response[1].type = "greeting"
              /\ Cardinality(CallsOf("greetingCompletion")) = 1
              /\ calls[1].stage = "checkRelevance"
              /\ calls[2].stage = "greetingCompletion"
              /\ StagesCalled \subseteq {"checkRelevance", "greetingCompletion",
                                         "getSettings", "streamText"}
        /\ relevanceResult = Some(NOT_RELEVANT) =>
              /\ response[1].type = "not-relevant"
              /\ Cardinality(CallsOf("notRelevantCompletion")) = 1
              /\ calls[1].stage = "checkRelevance"
              /\ calls[2].stage = "notRelevantCompletion"
              /\ StagesCalled \subseteq {"checkRelevance", "notRelevantCompletion",
                                         "getSettings", "streamText"}

\* C14's case: the classifier said 'greeting\n' and the greeting was answered.
C14_Witness ==
    /\ classifierContent = Some(<<"g","r","e","e","t","i","n","g","\n">>)
    /\ relevanceResult = Some(GREETING)
    /\ response # None
    /\ response[1].text = <<"o","k">>
    /\ pc = "Done"

\* The request passed every test POST makes before it builds the pipeline.
EnteredPipeline == pc # "Start" /\ ValidRequest /\ langsmithKey

C16_StreamCallShape ==
    /\ pc \in {"Streaming", "Done"} => Called("streamText")
    /\ \A i \in CallsOf("streamText") :
          LET m == calls[i].arg.messages
              n == Len(body.messages)
          IN  /\ Cardinality(CallsOf("streamText")) = 1
              /\ i = Len(calls)
              /\ i > 1 /\ calls[i - 1].stage = "getSettings"
              /\ response # None
              /\ Len(m) = n + 2
              /\ m[1] = [role |-> "system", content |-> SYSTEM_INSTRUCTIONS]
              /\ \A k \in 1..n : m[k + 1] = body.messages[k]
              /\ m[n + 2] = [role |-> "assistant", content |-> response[1].text]

\* C16's case: a request of two different messages reached the stream.
C16_Witness ==
    /\ pc = "Done"
    /\ Len(body.messages) = 2
    /\ body.messages[1] # body.messages[2]
    /\ response[1].text # <<>>

\* The metadata of the PipelineResponse, as found in a handed-over object.
CarriesResultMetadata(md) ==
    \A k \in DOMAIN response[1].metadata :
        k \in DOMAIN md /\ md[k] = response[1].metadata[k]

C17_Consistent ==
    /\ pc \in {"Trace", "Stream", "Streaming", "Done"} => response # None
    /\ \A i \in CallsOf("getSettings") \cup CallsOf("streamText") :
          response # None /\ CarriesResultMetadata(calls[i].arg.metadata)
    /\ traceSettings # None => CarriesResultMetadata(traceSettings[1].metadata)
    /\ streamCall # None => CarriesResultMetadata(streamCall[1].metadata)

\* C17: a request builds at most one PipelineResponse (once built it never
\* changes), a request that is Done has built one, and the metadata handed to
\* getSettings and attached to streamText carry that result's metadata.
C17_OneImmutableResult ==
    /\ [] C17_Consistent
    /\ [][response # None => response' = response]_vars

\* C17's case: a chat result with a non-empty query was traced and streamed.
C17_Witness ==
    /\ pc = "Done"
    /\ traceSettings # None /\ streamCall # None
    /\ response[1].type = "chat"
    /\ response[1].metadata.input # <<>>

\* The calls that carry a prompt with chat history.
PromptCalls(stages) == { i \in DOMAIN calls : calls[i].stage \in stages }

\* h is the last (at most HistoryWindow) messages of the request, in order.
IsRecentWindow(h) ==
    LET n == Len(body.messages)
    IN  /\ Len(h) = (IF n < HistoryWindow THEN n ELSE HistoryWindow)
        /\ \A k \in 1..Len(h) : h[k] = body.messages[n - Len(h) + k]

\* C18 as stated: every message in the history of the classifier prompt, the
\* rewrite prompt and the generation prompt is one of the last 5 messages of
\* the request.
C18_OnlyLastFiveInPrompts ==
    \A i \in PromptCalls({"checkRelevance", "rewriteQuery", "generate"}) :
        LET h == calls[i].arg.history
            n == Len(body.messages)
        IN  /\ Len(h) <= HistoryWindow
            /\ \A k \in 1..Len(h) :
                  \E j \in 1..n : j > n - HistoryWindow /\ body.messages[j] = h[k]

\* C18 amended: the classifier prompt and the generation prompt carry exactly
\* the last 5 messages of the request (all of them when there are fewer); the
\* rewrite prompt carries the whole messages array.
C18_WindowExceptRewrite ==
    /\ \A i \in PromptCalls({"checkRelevance", "generate"}) :
          IsRecentWindow(calls[i].arg.history)
    /\ \A i \in PromptCalls({"rewriteQuery"}) :
          calls[i].arg.history = body.messages

\* C18's case: a request of more than 5 messages went through the three prompts.
C18_Witness ==
    /\ Len(body.messages) > HistoryWindow
    /\ Called("checkRelevance") /\ Called("rewriteQuery") /\ Called("generate")
    /\ pc = "Done"

\* The three lines of a document: 'Source: <title>', 'Content: <text>',
\* 'URL: <url>', each but the last ended by a line break.
ThreeLineBlock(doc) ==
    <<"S","o","u","r","c","e",":"," ">> \o doc.title \o <<"\n">>
    \o <<"C","o","n","t","e","n","t",":"," ">> \o doc.text \o <<"\n">>
    \o <<"U","R","L",":"," ">> \o doc.url

\* Where the block of document k starts in the assembled text, less one: the
\* blocks before it and one two-character separator after each of them.
RECURSIVE BlockOffset(_, _)
BlockOffset(docs, k) ==
    IF k = 1 THEN 0
    ELSE BlockOffset(docs, k - 1) + Len(ThreeLineBlock(docs[k - 1])) + 2

\* out is the blocks of docs in their order, one blank line between two
\* consecutive blocks, nothing before the first or after the last.
IsAssemblyOf(out, docs) ==
    LET n == Len(docs)
    IN  /\ n = 0 => out = <<>>
        /\ n = 1 => out = ThreeLineBlock(docs[1])
        /\ n > 0 => Len(out) = BlockOffset(docs, n) + Len(ThreeLineBlock(docs[n]))
        /\ \A k \in 1..n :
              LET b == ThreeLineBlock(docs[k])
                  at == BlockOffset(docs, k)
              IN  /\ SubSeq(out, at + 1, at + Len(b)) = b
                  /\ k < n => /\ out[at + Len(b) + 1] = "\n"
                              /\ out[at + Len(b) + 2] = "\n"

\* C19: the context assembled from a sequence of documents is their
\* three-line blocks in input order, separated by exactly one blank line,
\* with no leading or trailing separator; no document gives the empty text,
\* one document gives its block, and equal inputs give equal texts.
C19_ContextAssembly ==
    /\ Len(contexts) = Len(searchOutputs)
    /\ \A i \in DOMAIN contexts : IsAssemblyOf(contexts[i], searchOutputs[i])
    /\ \A i, j \in DOMAIN contexts :
          searchOutputs[i] = searchOutputs[j] => contexts[i] = contexts[j]

\* C19's case: contexts were assembled from the same two documents in two
\* different orders.
C19_Witness ==
    /\ Len(contexts) = 2
    /\ Len(searchOutputs[1]) = 2
    /\ searchOutputs[1] # searchOutputs[2]
    /\ searchOutputs[1][1] = searchOutputs[2][2]
    /\ contexts[1] # contexts[2]

\* The rows of the table that have a vector.
Qualifying == { r \in corpus : r.vector # None }

\* The similarity of a row to the query: 1 minus its cosine distance.
SimilarityTo(r, q) == 1 - Distance(r.vector[1], q)

\* res is a result the claim allows for the query q with limit k: at most k
\* documents, each made of a row that has a vector, no row twice, in
\* non-increasing similarity, no row left out that is nearer than a returned
\* one, as many as the limit and the table allow, and empty (not an error)
\* when no row qualifies.
IsNearestResult(res, q, k) ==
    /\ Len(res) <= k
    /\ Len(res) = (IF Cardinality(Qualifying) < k THEN Cardinality(Qualifying) ELSE k)
    /\ Qualifying = {} => res = <<>>
    /\ \A i \in DOMAIN res :
          \E r \in Qualifying :
              res[i] = [id |-> r.id, text |-> r.text, title |-> r.title,
                        url |-> r.url, chunk_id |-> r.chunk_id,
                        similarity_score |-> SimilarityTo(r, q)]
    /\ \A i, j \in DOMAIN res :
          i < j => /\ res[i].id # res[j].id
                   /\ res[i].similarity_score >= res[j].similarity_score
    /\ \A r \in Qualifying :
          (\A i \in DOMAIN res : res[i].id # r.id)
              => \A i \in DOMAIN res : SimilarityTo(r, q) <= res[i].similarity_score

AllNearestResults ==
    \A i \in DOMAIN searchOutputs :
        IsNearestResult(searchOutputs[i], searchInput[1].queryEmbedding,
                        searchInput[1].topK)

\* C20 as stated: every result is the topK nearest rows with a vector in
\* non-increasing similarity, and repeated calls with the same embedding on
\* the same table return the same ordered result.
C20_SameOrderedResult ==
    /\ AllNearestResults
    /\ \A i, j \in DOMAIN searchOutputs : searchOutputs[i] = searchOutputs[j]

\* Two rows with a vector are at the same distance from the query.
DistanceTie ==
    \E r, t \in Qualifying :
        /\ r # t
        /\ SimilarityTo(r, searchInput[1].queryEmbedding)
              = SimilarityTo(t, searchInput[1].queryEmbedding)

\* C20 amended: every result is as above, and repeated calls return results
\* of the same length with the same similarity at every position; they are
\* the same ordered result unless two rows are at the same distance.
C20_SameUpToTies ==
    /\ AllNearestResults
    /\ \A i, j \in DOMAIN searchOutputs :
          /\ Len(searchOutputs[i]) = Len(searchOutputs[j])
          /\ \A k \in DOMAIN searchOutputs[i] :
                searchOutputs[i][k].similarity_score
                    = searchOutputs[j][k].similarity_score
          /\ ~DistanceTie => searchOutputs[i] = searchOutputs[j]

\* C20's case: the table has a row without a vector and more rows with one
\* than the limit, and the call was repeated.
C20_Witness ==
    /\ Len(searchOutputs) = 2
    /\ \E r \in corpus : r.vector = None
    /\ searchInput[1].topK > 0
    /\ Cardinality(Qualifying) > searchInput[1].topK
    /\ ~DistanceTie

Terminal == pc \in {"Done", "Failed"}

\* C21: every validated request reaches Done or Failed once every call it
\* makes returns or throws; none stays in a state that is not terminal, and
\* no step leaves a terminal state.
C21_ReachesTerminal ==
    /\ (ValidRequest ~> Terminal)
    /\ [][Terminal => pc' = pc]_vars

\* C21's case: a request whose embedding took every attempt it is allowed
\* was streamed to its end.
C21_Witness ==
    /\ ValidRequest
    /\ pc = "Done"
    /\ embedAttempts = maxRetries + 1

\* C22: on a Relevant request the embedding provider is attempted at least
\* once and at most 1 + maxRetries times; an attempt that succeeds leads to
\* the vector search with the embedding it returned; once the last allowed
\* attempt has failed the request has failed, with no embedding and no search.
C22_EmbedAttemptsBounded ==
    /\ embedAttempts <= maxRetries + 1
    /\ Called("embed") <=> embedAttempts >= 1
    /\ (relevanceResult = Some(RELEVANT) /\ Terminal) => embedAttempts >= 1
    /\ pc = "Embed" => embedAttempts <= maxRetries /\ embedding = None
    /\ embedding # None =>
          /\ ~Threw("embed")
          /\ pc # "Embed"
          /\ \A i \in CallsOf("searchNeonDb") :
                calls[i].arg.queryEmbedding = embedding[1]
    /\ Called("searchNeonDb") => embedding # None
    /\ (embedAttempts = maxRetries + 1 /\ embedding = None) =>
          pc = "Failed" /\ Threw("embed")
    /\ Threw("embed") =>
          /\ pc = "Failed"
          /\ embedding = None
          /\ similarDocs = None
          /\ ~Called("searchNeonDb")
          /\ response = None

\* C22's case: a Relevant request whose third attempt failed.
C22_Witness ==
    /\ relevanceResult = Some(RELEVANT)
    /\ embedAttempts = maxRetries + 1
    /\ Threw("embed")

\* A text with no character other than whitespace (the empty text included).
IsBlank(t) == \A i \in DOMAIN t : t[i] \in Whitespace

\* C23: normalizing a classifier output that was already normalized returns
\* it unchanged, and an absent, empty or whitespace-only output normalizes to
\* NOT_RELEVANT.
C23_NormalizationIdempotent ==
    /\ \A i \in DOMAIN normOutputs : i > 1 => normOutputs[i] = normOutputs[i - 1]
    /\ (normOutputs # <<>> /\ (normInput[1] = None \/ IsBlank(normInput[1][1])))
          => normOutputs[1] = NOT_RELEVANT

\* C23's case: a content with whitespace around a lower-case letter was
\* normalized, and its result normalized again.
C23_Witness ==
    /\ normInput = Some(Some(<<" ", "r", "\n">>))
    /\ Len(normOutputs) = 2
    /\ normOutputs[1] = <<"R">>

\* The query a call to a collaborator was given, for the calls that take one.
QueryOf(call) ==
    IF call.stage \in {"checkRelevance", "rewriteQuery"} THEN Some(call.arg.query)
    ELSE IF call.stage \in {"greetingCompletion", "notRelevantCompletion"}
         THEN Some(call.arg)
    ELSE IF call.stage = "generate" THEN Some(call.arg.question)
    ELSE None

\* C24: when the messages array holds a user message, the query of the
\* pipeline is the content of the last message with role 'user', whatever
\* assistant messages follow it: it is lastUserMessage, and the query of
\* every call that takes one.
C24_QueryIsLastUserMessage ==
    (pc # "Start" /\ ValidRequest
        /\ \E i \in DOMAIN body.messages : body.messages[i].role = "user")
    => \E i \in DOMAIN body.messages :
          /\ body.messages[i].role = "user"
          /\ \A j \in DOMAIN body.messages : j > i => body.messages[j].role # "user"
          /\ lastUserMessage = body.messages[i].content
          /\ \A k \in DOMAIN calls :
                QueryOf(calls[k]) \in {None, Some(body.messages[i].content)}

\* C24's case: an assistant message with another content follows the last
\* user message, and the answer was generated.
C24_Witness ==
    /\ Len(body.messages) = 2
    /\ body.messages[1].role = "user"
    /\ body.messages[2].role = "assistant"
    /\ body.messages[1].content # body.messages[2].content
    /\ body.messages[1].content # <<>>
    /\ Called("generate")

IsPrefixOf(s, t) == Len(s) <= Len(t) /\ SubSeq(t, 1, Len(s)) = s

PipelineStages ==
    {"checkRelevance", "greetingCompletion", "notRelevantCompletion",
     "rewriteQuery", "embed", "searchNeonDb", "links", "generate"}

IsPipelineCall(c) == c.stage \in PipelineStages

CallTo(stage, arg) == << [stage |-> stage, arg |-> arg] >>

\* The calls of the pipeline a request with the locals r makes when it is
\* handled alone, given what the providers answered to it so far.
CallsAlone(r) ==
    LET msgs == r.body.messages
        q == findLastUserContent(msgs)
        recent == sliceLast(msgs, HistoryWindow)
        retrieval ==
            CallTo("rewriteQuery", [query |-> q, history |-> msgs])
            \o (IF r.rewrittenQuery = None THEN <<>>
                ELSE CallTo("embed", r.rewrittenQuery[1])
                \o (IF r.embedding = None THEN <<>>
                    ELSE CallTo("searchNeonDb",
                                [queryEmbedding |-> r.embedding[1], topK |-> topK])
                    \o (IF r.similarDocs = None THEN <<>>
                        ELSE LET context == assembleContext(r.similarDocs[1])
                             IN  (IF Truthy(context)
                                  THEN CallTo("links",
                                              [context |-> context,
                                               query |-> r.rewrittenQuery[1]])
                                  ELSE <<>>)
                                 \o CallTo("generate",
                                           [history |-> recent, context |-> context,
                                            question |-> q]))))
    IN  CallTo("checkRelevance", [history |-> recent, query |-> q])
        \o (IF r.relevanceResult = None THEN <<>>
            ELSE IF r.relevanceResult[1] = GREETING
                 THEN CallTo("greetingCompletion", q)
            ELSE IF r.relevanceResult[1] = INAPPROPRIATE THEN <<>>
            ELSE IF r.relevanceResult[1] = NOT_RELEVANT
                 THEN CallTo("notRelevantCompletion", q)
            ELSE retrieval)

\* The PipelineResult of that request, given the text of its answer.
ResultAlone(r) ==
    LET q == findLastUserContent(r.body.messages)
        label == r.relevanceResult[1]
        text == r.response[1].text
    IN  IF label = GREETING THEN pipelineResponse(text, "greeting", q, 0, <<>>)
        ELSE IF label = INAPPROPRIATE
             THEN pipelineResponse(InappropriateAnswer, "inappropriate", q, 0, <<>>)
        ELSE IF label = NOT_RELEVANT
             THEN pipelineResponse(text, "not-relevant", q, 0, <<>>)
        ELSE pipelineResponse(text, "chat", q, Len(r.similarDocs[1]),
                              r.rewrittenQuery[1])

\* The request with the locals r stands where it would when handled alone
\* with the same answers of the providers.
AsHandledAlone(r) ==
    /\ r.pc # "Start" /\ r.body.kind = "array" =>
          /\ r.messages = r.body.messages
          /\ r.lastUserMessage = findLastUserContent(r.body.messages)
    /\ r.relevanceResult # None =>
          r.relevanceResult = Some(normalizeRelevance(r.classifierContent))
    /\ LET made == SelectSeq(r.calls, IsPipelineCall)
           alone == CallsAlone(r)
       IN  /\ IsPrefixOf(made, alone)
           /\ r.response # None => made = alone /\ r.response[1] = ResultAlone(r)
    /\ \A k \in DOMAIN r.calls :
          r.calls[k].stage \in {"getSettings", "streamText"} =>
              /\ r.response # None
              /\ r.calls[k].arg.metadata.input = r.response[1].metadata.input
              /\ r.calls[k].arg.metadata.output = r.response[1].text
    /\ r.pc = "Done" => r.response # None /\ r.failures \in {<<>>, <<"rewriteQuery">>,
                            <<"getSettings">>, <<"rewriteQuery", "getSettings">>}

\* C25: whatever the interleaving of two requests, each one's calls, label
\* and result are those of the request handled alone with the same answers
\* of the providers, whether the other has failed or not, and a step of one
\* changes nothing of the other.
C25_RequestsIndependent ==
    /\ [] (suspended # None =>
              AsHandledAlone(locals) /\ AsHandledAlone(suspended[1]))
    /\ [][suspended # None =>
              \/ suspended' = suspended
              \/ suspended' = Some(locals) /\ locals' = suspended[1]]_vars

\* C25's case: of two requests with different questions the one failed at
\* its embedding after the other was classified, and the other was answered.
C25_Witness ==
    /\ suspended # None
    /\ body # suspended[1].body
    /\ pc = "Failed"
    /\ Threw("embed")
    /\ suspended[1].pc = "Done"
    /\ suspended[1].response # None
    /\ suspended[1].response[1].type = "chat"

\* What the classifier, the rewriter, the embedding provider and the vector
\* search answered to the request with the locals r.
UpToSearch(r) ==
    << r.body, r.classifierContent, r.relevanceResult, r.rewrittenQuery,
       r.embedding, r.similarDocs >>

\* The prompts the request with the locals r sent to the answer generation.
GenerationPrompts(r) ==
    LET IsGenerate(c) == c.stage = "generate"
    IN  SelectSeq(r.calls, IsGenerate)

\* C26: two runs of the same Relevant request with the same classifier,
\* rewrite, embedding and search results, whatever the enrichment service
\* answered to each, send the same prompt to the answer generation and end
\* with the same PipelineResult (no other call failing in either).
C26_AnswerIndependentOfEnrichment ==
    (/\ suspended # None
     /\ pc \in {"Done", "Failed"}
     /\ suspended[1].pc \in {"Done", "Failed"}
     /\ relevanceResult = Some(RELEVANT)
     /\ similarDocs # None
     /\ UpToSearch(locals) = UpToSearch(suspended[1])
     /\ failures \in {<<>>, <<"links">>}
     /\ suspended[1].failures \in {<<>>, <<"links">>})
    => /\ GenerationPrompts(locals) = GenerationPrompts(suspended[1])
       /\ response = suspended[1].response

\* The caller of the request with the locals r closed the connection after
\* it had received tokens, and the request has ended: its generation was
\* aborted, it did not run to its end.
ReleasedOnClose(r) ==
    (r.connection = "closed" /\ r.delivered > 0 /\ r.pc = "Done")
        => r.generation = "aborted"

\* C27: when the caller closes the connection while tokens are streamed, the
\* emission stops and the streamed generation of that request is aborted,
\* and the other request in flight stands where it would when handled alone.
C27_CloseAbortsGeneration ==
    suspended # None =>
        /\ ReleasedOnClose(locals)
        /\ ReleasedOnClose(suspended[1])
        /\ connection = "closed" => AsHandledAlone(suspended[1])
        /\ suspended[1].connection = "closed" => AsHandledAlone(locals)

\* The label is at the head of the text, after whitespace at most.
HasLeadingLabel(t) ==
    LET s == trim(t)
    IN  Len(s) >= Len(RewriteLabel) /\ SubSeq(s, 1, Len(RewriteLabel)) = RewriteLabel

\* The text with its leading label, if it has one, taken off, trimmed.
WithoutLeadingLabel(t) ==
    IF HasLeadingLabel(t)
    THEN trim(SubSeq(trim(t), Len(RewriteLabel) + 1, Len(trim(t))))
    ELSE trim(t)

\* C29: when the rewrite call succeeds, rewriteQuery takes the label off only
\* where it leads the output and returns the trimmed rest; an output without
\* a leading label is returned trimmed and otherwise unchanged; an empty or
\* absent cleaned output gives the original query, so the rewritten query of
\* a non-empty query is never empty.
C29_OnlyLeadingLabelStripped ==
    (rwInput # None /\ rwOutput # None /\ ~rwInput[1].threw) =>
        LET query == rwInput[1].query
            content == rwInput[1].content
            cleaned == IF content = None THEN <<>> ELSE WithoutLeadingLabel(content[1])
        IN  /\ rwOutput[1] = (IF cleaned = <<>> THEN query ELSE cleaned)
            /\ query # <<>> => rwOutput[1] # <<>>

ShortCircuitTypes == {"greeting", "inappropriate", "not-relevant"}

\* C30: in every PipelineResult the pipeline builds, metadata.output is the
\* text, metadata.responseType the type and metadata.input the query; on the
\* greeting, inappropriate and not-relevant branches contextCount is 0 and
\* rewrittenQuery is ''; on the chat branch contextCount is the number of
\* documents the vector search returned and rewrittenQuery is the text that
\* was embedded.
C30_ResultInternallyConsistent ==
    response # None =>
        LET result == response[1]
        IN  /\ result.metadata.output = result.text
            /\ result.metadata.responseType = result.type
            /\ result.metadata.input = findLastUserContent(body.messages)
            /\ result.type \in ShortCircuitTypes \cup {"chat"}
            /\ result.type \in ShortCircuitTypes =>
                  /\ result.metadata.contextCount = 0
                  /\ result.metadata.rewrittenQuery = <<>>
                  /\ ~Called("embed")
                  /\ ~Called("searchNeonDb")
            /\ result.type = "chat" =>
                  /\ similarDocs # None
                  /\ result.metadata.contextCount = Len(similarDocs[1])
                  /\ Cardinality(CallsOf("embed")) = 1
                  /\ \A i \in CallsOf("embed") :
                        calls[i].arg = result.metadata.rewrittenQuery

\* C30's case: a chat result built on three documents and on a rewritten
\* query that is not the question.
C30_Witness ==
    /\ response # None
    /\ response[1].type = "chat"
    /\ response[1].metadata.contextCount = 3
    /\ response[1].metadata.rewrittenQuery # lastUserMessage

\* ------------------------------------------------- properties of the chat page

\* C31: handleSearch submits no chat request while a previous one is loading,
\* so that, whatever the user submits, presses or clicks, at most one chat
\* request of the page is in flight at any time.
C31_AtMostOneInFlight == Len(page.requests) <= 1

\* A call of onFinish has just returned by the given path.
Returned(path) == page' # page /\ page'.finished = Some(path)

\* new is old with one more element at its end.
Extends(new, old) ==
    Len(new) = Len(old) + 1 /\ SubSeq(new, 1, Len(old)) = old

\* C32: when onFinish stores the finished answer, the new conversation is
\* appended to the end of the conversations of the session that was current
\* when onFinish was called, every other session is left as it was and the
\* conversations the session had keep their order; when the links service
\* answers 'not_relevant' or fails, no session is modified.
C32_StoredInCurrentSessionOnly ==
    [][ /\ Returned("stored") =>
            \E k \in DOMAIN page.finishing, i \in DOMAIN page.sessions :
                /\ page'.finishing = without(page.finishing, k)
                /\ Some(page.sessions[i].id) = page.finishing[k].currentSessionId
                /\ DOMAIN page'.sessions = DOMAIN page.sessions
                /\ \A j \in DOMAIN page.sessions :
                       j # i => page'.sessions[j] = page.sessions[j]
                /\ page'.sessions[i].id = page.sessions[i].id
                /\ Extends(page'.sessions[i].conversations,
                           page.sessions[i].conversations)
                /\ page'.sessions[i].conversations[
                       Len(page'.sessions[i].conversations)].question
                     = page.finishing[k].currentQuestion
        /\ (Returned("not_relevant") \/ Returned("failed")) =>
            page'.sessions = page.sessions ]_vars

\* The paths by which onFinish returns after its links request.
LinksPaths == { Some("stored"), Some("not_relevant"), Some("failed") }

\* C33 as stated: when onFinish has run to completion by any of these paths,
\* isSecondResponseLoading is false and isStreaming is false.
C33_NothingLoadingAfterOnFinish ==
    page.finished \in LinksPaths =>
        ~page.isSecondResponseLoading /\ ~page.isStreaming

\* C33, amended: onFinish sets isStreaming to false when it is called, and
\* when it returns by any of these paths isSecondResponseLoading is false and
\* isStreaming is what it was before the return: false, unless the response of
\* a later request has begun while the links service was awaited.
C33_SecondaryLoadingEnds ==
    [][ /\ (\E path \in LinksPaths : Returned(path[1])) =>
            /\ ~page'.isSecondResponseLoading
            /\ page'.isStreaming = page.isStreaming
        /\ (Returned("returned") \/ Len(page'.finishing) > Len(page.finishing)) =>
            ~page'.isStreaming ]_vars

\* onFinish has returned after a failed links request, while the answer of
\* the next request is streaming.
C33_Witness ==
    /\ page.finished = Some("failed")
    /\ page.isStreaming
    /\ ~page.isSecondResponseLoading

\* C36: after any sequence of handleNewConversation, manageSession,
\* handleSessionSelect, recoverState and browser-refresh handling, a
\* currentSessionId that is not null is the id of a session of sessions.
C36_CurrentSessionExists ==
    page.currentSessionId # None =>
        findSession(page.sessions, page.currentSessionId) # None


\* ---------------------------------------------- properties of the session hook

\* C34: the module-level variables mirror the hook's state: after any calls
\* of setSessions, setCurrentSessionId, updateSessionConversations and
\* createNewSession, globalSessions is the latest sessions and
\* globalCurrentSessionId the latest currentSessionId.
C34_GlobalsMirrorState ==
    /\ hook.globalSessions = hook.sessions
    /\ hook.globalCurrentSessionId = hook.currentSessionId

\* C35: no POST to /api/set-session is sent before the initial load has
\* finished, when no user is signed in or while sessions is empty, and the
\* initial load from /api/get-session is performed at most once.
C35_SavesAfterLoadAndLoadsOnce ==
    /\ hook.posted # None =>
           hook.isInitialized /\ hook.userId /\ hook.sessions # <<>>
    /\ hook.gets <= 1

\* ------------------------------------- properties of the page and of the hook

\* new is old with one more session, which has an id no session of old has
\* and no conversations, and current is that id.
AddsOneSession(old, new, current) ==
    \E k \in DOMAIN new :
        /\ without(new, k) = old
        /\ new[k].conversations = <<>>
        /\ \A i \in DOMAIN old : old[i].id # new[k].id
        /\ current = Some(new[k].id)

\* C37: handleNewConversation in the chat page and createNewSession in
\* useSession add exactly one session, with an empty conversations list, and
\* make it the current session; every session that existed is still there,
\* with its conversations, unchanged.
C37_NewSessionAddsOne ==
    [][ /\ (PageOpen /\ page' # page /\ page'.created) =>
            AddsOneSession(page.sessions, page'.sessions, page'.currentSessionId)
        /\ (HookMounted /\ hook' # hook /\ hook'.created) =>
            AddsOneSession(hook.sessions, hook'.sessions, hook'.currentSessionId)
      ]_vars

\* handleNewConversation has just run on a page that had a session with a
\* conversation, and another session.
C37_Witness ==
    /\ PageOpen
    /\ page.created
    /\ Len(page.sessions) >= 3
    /\ \E i \in DOMAIN page.sessions : page.sessions[i].conversations # <<>>

=============================================================================
